---- MODULE Spec2Model ----
(***************************************************************************)
(* The Forge: the generate and evaluate API routes                         *)
(* (src/app/api/generate/route.ts, src/app/api/evaluate/route.ts).         *)
(*                                                                         *)
(* A JSON value is a record [t, n, cs, keys, items]:                       *)
(*   t = "undef" | "null" | "bool" | "num" | "str" | "arr" | "obj"         *)
(*   n     the number of a "num"; 1 or 0 for the "bool" true or false      *)
(*   cs    the characters of a "str", a sequence of atoms; the atoms " "   *)
(*         and "\n" are whitespace, every other atom is a run of           *)
(*         non-whitespace characters                                       *)
(*   keys, items   the member names and values of an "obj" (in insertion   *)
(*         order), or the elements of an "arr" (keys empty)                *)
(* A text (the model response) is a sequence of lexemes [c, n, s].         *)
(***************************************************************************)
EXTENDS Integers, Sequences, FiniteSets, TLC

----------------------------------------------------------------------------
(* JSON values *)

Undef == [t |-> "undef", n |-> 0, cs |-> <<>>, keys |-> <<>>, items |-> <<>>]
JNull == [t |-> "null", n |-> 0, cs |-> <<>>, keys |-> <<>>, items |-> <<>>]
JTrue == [t |-> "bool", n |-> 1, cs |-> <<>>, keys |-> <<>>, items |-> <<>>]
Num(k) == [t |-> "num", n |-> k, cs |-> <<>>, keys |-> <<>>, items |-> <<>>]
Str(chars) == [t |-> "str", n |-> 0, cs |-> chars, keys |-> <<>>, items |-> <<>>]
Arr(elems) == [t |-> "arr", n |-> 0, cs |-> <<>>, keys |-> <<>>, items |-> elems]
Obj(ks, vs) == [t |-> "obj", n |-> 0, cs |-> <<>>, keys |-> ks, items |-> vs]

IndexOf(ks, k) ==
  IF \E i \in 1..Len(ks) : ks[i] = k
  THEN CHOOSE i \in 1..Len(ks) : ks[i] = k
  ELSE 0

\* v.k in JavaScript for a v that is neither undefined nor null: the member of
\* an object, undefined for a missing member and for a number, a string or an
\* array (which have no such own property).
Prop(v, k) ==
  IF v.t = "obj" /\ IndexOf(v.keys, k) # 0
  THEN v.items[IndexOf(v.keys, k)]
  ELSE Undef

\* Reading a property of undefined or null throws a TypeError.
Nullish(v) == v.t \in {"undef", "null"}

\* !v in JavaScript.
Falsy(v) ==
  \/ v.t \in {"undef", "null"}
  \/ v.t \in {"num", "bool"} /\ v.n = 0
  \/ v.t = "str" /\ v.cs = <<>>

\* obj[k] = val: a new member is appended, an existing one is overwritten in place.
SetMember(o, k, val) ==
  IF IndexOf(o.keys, k) # 0
  THEN Obj(o.keys, [o.items EXCEPT ![IndexOf(o.keys, k)] = val])
  ELSE Obj(Append(o.keys, k), Append(o.items, val))

----------------------------------------------------------------------------
(* Texts *)

Lex(c) == [c |-> c, n |-> 0, s |-> ""]
LBrace == Lex("{")
RBrace == Lex("}")
LBrack == Lex("[")
RBrack == Lex("]")
Comma == Lex(",")
NullLit == Lex("null")
Fence == Lex("fence")         \* ```
JsonWord == Lex("json")       \* the word json
Word == Lex("w")              \* a word of prose
Space == Lex("sp")            \* " "
Newline == Lex("nl")          \* "\n"
NumLit(k) == [c |-> "num", n |-> k, s |-> ""]
StrLit(a) == [c |-> "str", n |-> 0, s |-> a]     \* "a"
Key(k) == [c |-> "key", n |-> 0, s |-> k]        \* "k":

IsSpace(x) == x.c \in {"sp", "nl"}

\* String.prototype.trim
RECURSIVE TrimLeft(_)
TrimLeft(txt) ==
  IF txt # <<>> /\ IsSpace(Head(txt)) THEN TrimLeft(Tail(txt)) ELSE txt

RECURSIVE TrimRight(_)
TrimRight(txt) ==
  IF txt # <<>> /\ IsSpace(txt[Len(txt)])
  THEN TrimRight(SubSeq(txt, 1, Len(txt) - 1))
  ELSE txt

TrimText(txt) == TrimRight(TrimLeft(txt))

----------------------------------------------------------------------------
(* JSON.stringify and JSON.parse *)

RECURSIVE Stringify(_)
RECURSIVE StringifyElems(_, _, _)
StringifyElems(v, i, isObj) ==
  IF i > Len(v.items) THEN <<>>
  ELSE (IF i > 1 THEN <<Comma>> ELSE <<>>)
       \o (IF isObj THEN <<Key(v.keys[i])>> ELSE <<>>)
       \o Stringify(v.items[i])
       \o StringifyElems(v, i + 1, isObj)

Stringify(v) ==
  CASE v.t = "null" -> <<NullLit>>
    [] v.t = "num" -> <<NumLit(v.n)>>
    [] v.t = "str" -> <<StrLit(IF v.cs = <<>> THEN "" ELSE v.cs[1])>>
    [] v.t = "arr" -> <<LBrack>> \o StringifyElems(v, 1, FALSE) \o <<RBrack>>
    [] v.t = "obj" -> <<LBrace>> \o StringifyElems(v, 1, TRUE) \o <<RBrace>>
    [] OTHER -> <<>>

\* The position of the first lexeme at or after i that is not whitespace.
RECURSIVE SkipWs(_, _)
SkipWs(txt, i) ==
  IF i <= Len(txt) /\ IsSpace(txt[i]) THEN SkipWs(txt, i + 1) ELSE i

ParseFail == [ok |-> FALSE, v |-> Undef, next |-> 0]
Parsed(val, nxt) == [ok |-> TRUE, v |-> val, next |-> nxt]

\* ParseValue(txt, i): the JSON value that starts at position i (after
\* whitespace) and the position after it.
RECURSIVE ParseValue(_, _)
RECURSIVE ParseElems(_, _, _)
RECURSIVE ParseMembers(_, _, _)

\* elements after "[" or after a ",": acc holds the elements read so far
ParseElems(txt, i, acc) ==
  LET r == ParseValue(txt, i) IN
  IF ~r.ok THEN ParseFail
  ELSE LET j == SkipWs(txt, r.next) IN
       IF j > Len(txt) THEN ParseFail
       ELSE IF txt[j] = RBrack THEN Parsed(Arr(Append(acc, r.v)), j + 1)
       ELSE IF txt[j] = Comma THEN ParseElems(txt, j + 1, Append(acc, r.v))
       ELSE ParseFail

\* members after "{" or after a ",": acc is the object built so far
ParseMembers(txt, i, acc) ==
  LET k == SkipWs(txt, i) IN
  IF k > Len(txt) \/ txt[k].c # "key" THEN ParseFail
  ELSE LET r == ParseValue(txt, k + 1) IN
       IF ~r.ok THEN ParseFail
       ELSE LET j == SkipWs(txt, r.next)
                o == SetMember(acc, txt[k].s, r.v) IN
            IF j > Len(txt) THEN ParseFail
            ELSE IF txt[j] = RBrace THEN Parsed(o, j + 1)
            ELSE IF txt[j] = Comma THEN ParseMembers(txt, j + 1, o)
            ELSE ParseFail

ParseValue(txt, i) ==
  LET k == SkipWs(txt, i) IN
  IF k > Len(txt) THEN ParseFail
  ELSE CASE txt[k].c = "null" -> Parsed(JNull, k + 1)
         [] txt[k].c = "num" -> Parsed(Num(txt[k].n), k + 1)
         [] txt[k].c = "str" ->
              Parsed(Str(IF txt[k].s = "" THEN <<>> ELSE <<txt[k].s>>), k + 1)
         [] txt[k].c = "[" ->
              LET j == SkipWs(txt, k + 1) IN
              IF j <= Len(txt) /\ txt[j] = RBrack
              THEN Parsed(Arr(<<>>), j + 1)
              ELSE ParseElems(txt, k + 1, <<>>)
         [] txt[k].c = "{" ->
              LET j == SkipWs(txt, k + 1) IN
              IF j <= Len(txt) /\ txt[j] = RBrace
              THEN Parsed(Obj(<<>>, <<>>), j + 1)
              ELSE ParseMembers(txt, k + 1, Obj(<<>>, <<>>))
         [] OTHER -> ParseFail

\* JSON.parse(txt): ok is FALSE where JSON.parse throws a SyntaxError.
JsonParse(txt) ==
  LET r == ParseValue(txt, 1) IN
  IF r.ok /\ SkipWs(txt, r.next) > Len(txt)
  THEN [ok |-> TRUE, v |-> r.v]
  ELSE [ok |-> FALSE, v |-> Undef]

----------------------------------------------------------------------------
(* Recovery of the JSON value from the model response *)

StartsWithFenceJson(txt) == Len(txt) >= 2 /\ txt[1] = Fence /\ txt[2] = JsonWord
StartsWithFence(txt) == Len(txt) >= 1 /\ txt[1] = Fence

\* replace(/^```json\n?/, "")
StripFenceJson(txt) ==
  IF StartsWithFenceJson(txt)
  THEN IF Len(txt) >= 3 /\ txt[3] = Newline
       THEN SubSeq(txt, 4, Len(txt))
       ELSE SubSeq(txt, 3, Len(txt))
  ELSE txt

\* replace(/^```\n?/, "")
StripFencePlain(txt) ==
  IF StartsWithFence(txt)
  THEN IF Len(txt) >= 2 /\ txt[2] = Newline
       THEN SubSeq(txt, 3, Len(txt))
       ELSE SubSeq(txt, 2, Len(txt))
  ELSE txt

\* replace(/\n?```$/, "")
StripFenceEnd(txt) ==
  IF txt # <<>> /\ txt[Len(txt)] = Fence
  THEN IF Len(txt) >= 2 /\ txt[Len(txt) - 1] = Newline
       THEN SubSeq(txt, 1, Len(txt) - 2)
       ELSE SubSeq(txt, 1, Len(txt) - 1)
  ELSE txt

\* BraceSpan with a lazy match, /\{[\s\S]*?\}/: up to the first "}"
BraceSpanLazy(txt) ==
  LET opens == {i \in 1..Len(txt) : txt[i] = LBrace} IN
  IF opens = {} THEN <<>>
  ELSE LET first == CHOOSE i \in opens : \A j \in opens : i <= j
           closes == {i \in first + 1..Len(txt) : txt[i] = RBrace} IN
       IF closes = {} THEN <<>>
       ELSE LET last == CHOOSE i \in closes : \A j \in closes : i <= j IN
            SubSeq(txt, first, last)

\* match(/\{[\s\S]*\}/): the greedy match runs from the first "{" to the last
\* "}" after it; <<>> stands for no match (a match is never empty).
BraceSpan(txt) ==
  LET opens == {i \in 1..Len(txt) : txt[i] = LBrace} IN
  IF opens = {} THEN <<>>
  ELSE LET first == CHOOSE i \in opens : \A j \in opens : i <= j
           closes == {i \in first + 1..Len(txt) : txt[i] = RBrace} IN
       IF closes = {} THEN <<>>
       ELSE LET last == CHOOSE i \in closes : \A j \in closes : j <= i IN
            SubSeq(txt, first, last)

\* generate/route.ts: the fence is stripped from the trimmed text
GenJsonText(raw) ==
  LET t == TrimText(raw) IN
  IF StartsWithFenceJson(t) THEN StripFenceEnd(StripFenceJson(t))
  ELSE IF StartsWithFence(t) THEN StripFenceEnd(StripFencePlain(t))
  ELSE t

\* GenExtract with the brace span tried before the direct parse
GenExtractSpanFirst(raw) ==
  LET jsonText == GenJsonText(raw)
      jsonMatch == BraceSpan(jsonText) IN
  IF jsonMatch # <<>> /\ JsonParse(jsonMatch).ok THEN JsonParse(jsonMatch)
  ELSE JsonParse(jsonText)

\* generate/route.ts: assignmentData, or ok = FALSE where the code throws
GenExtract(raw) ==
  LET jsonText == GenJsonText(raw)
      direct == JsonParse(jsonText) IN
  IF direct.ok THEN direct
  ELSE LET jsonMatch == BraceSpan(jsonText) IN
       IF jsonMatch # <<>> THEN JsonParse(jsonMatch)
       ELSE [ok |-> FALSE, v |-> Undef]

\* EvalJsonText without the trim
EvalJsonTextUntrimmed(raw) ==
  IF StartsWithFenceJson(raw) THEN StripFenceEnd(StripFenceJson(raw))
  ELSE IF StartsWithFence(raw) THEN StripFenceEnd(StripFencePlain(raw))
  ELSE raw

\* evaluate/route.ts: the fence is stripped from the trimmed text
EvalJsonText(raw) ==
  LET t == TrimText(raw) IN
  IF StartsWithFenceJson(t) THEN StripFenceEnd(StripFenceJson(t))
  ELSE IF StartsWithFence(t) THEN StripFenceEnd(StripFencePlain(t))
  ELSE t

\* evaluate/route.ts: evaluationData, or ok = FALSE where the code throws
EvalExtract(raw) ==
  LET jsonText == EvalJsonText(raw)
      direct == JsonParse(jsonText) IN
  IF direct.ok THEN direct
  ELSE LET jsonMatch == BraceSpan(jsonText) IN
       IF jsonMatch # <<>> THEN JsonParse(jsonMatch)
       ELSE [ok |-> FALSE, v |-> Undef]

----------------------------------------------------------------------------
(* The two route handlers *)

VARIABLES
  apiKey,     \* process.env.OPENAI_API_KEY is set
  endpoint,   \* the route of the request in progress: "generate" or "evaluate"
  pc,         \* "idle" (no request yet), "calling" (awaiting generateText),
              \* "done" (responded); a handler run shares nothing with the next
  req,        \* the request: [parses, body], request.json() throws unless parses
  calls,      \* generateText calls issued for the request in progress
  prompt,     \* the template the prompt was built from, "none" before that
  promptText, \* the interpolations of the prompt handed to generateText
  completion, \* the generateText promise: "none", "pending", "resolved", "rejected"
  modelText,  \* the text generateText resolved to
  data,       \* assignmentData / evaluationData: [ok, v], ok = FALSE until parsed
  response    \* [status, body] of the NextResponse, status 0 before it is sent

\* the page (Home) and the components it renders; the state of a component
\* that is not mounted is held at its initial value, which is the value it
\* has when it is mounted again
VARIABLES
  searchQuery,             \* Home: the characters of the search box
  pageAssignmentType,      \* Home: assignmentType, the kind selected
  isGenerating,            \* Home
  pageAssignment,          \* Home: assignment, JNull for null
  generatedQuery,          \* Home
  generatedAssignmentType, \* Home
  error,                   \* Home: JNull or the message
  showSubmission,          \* AssignmentDisplay
  isEvaluating,            \* AssignmentDisplay
  evaluationResults,       \* AssignmentDisplay: JNull or the results
  mcAnswers,               \* AssignmentSubmission: an object, number -> answer
  essayText,               \* AssignmentSubmission: the characters of the text
  mixedAnswers,            \* AssignmentSubmission
  caseStudyResponses,      \* AssignmentSubmission
  fetches,                 \* the fetch calls in flight, oldest first
  lastEvent,               \* the handler that ran last, "none" before any
  alerted                  \* the message of the alert that handler raised, "" if none

routeVars ==
  <<apiKey, endpoint, pc, req, calls, prompt, promptText, completion, modelText,
    data, response>>

homeVars ==
  <<searchQuery, pageAssignmentType, isGenerating, pageAssignment, generatedQuery,
    generatedAssignmentType, error>>
displayVars == <<showSubmission, isEvaluating, evaluationResults>>
formVars == <<mcAnswers, essayText, mixedAnswers, caseStudyResponses>>
pageVars == <<homeVars, displayVars, formVars, fetches, lastEvent, alerted>>

vars == <<routeVars, pageVars>>

NoData == [ok |-> FALSE, v |-> Undef]

StrOf(a) == Str(<<a>>)

\* NextResponse.json(o, {status}): JSON.stringify leaves out the members
\* whose value is undefined.
RECURSIVE Serialize(_, _, _)
Serialize(ks, vs, acc) ==
  IF ks = <<>> THEN acc
  ELSE Serialize(Tail(ks), Tail(vs),
                 IF Head(vs).t = "undef" THEN acc
                 ELSE SetMember(acc, Head(ks), Head(vs)))

\* an object literal { k1: v1, ... } as JSON.stringify writes it
ObjOf(ks, vs) == Serialize(ks, vs, Obj(<<>>, <<>>))

\* a || b
OrElse(a, b) == IF Falsy(a) THEN b ELSE a

\* ${v} in a template: undefined is written out as the word
OrUndefined(v) == IF v.t = "undef" THEN StrOf("undefined") ELSE v

Respond(st, ks, vs) == [status |-> st, body |-> Serialize(ks, vs, Obj(<<>>, <<>>))]
ErrorResponse(st, msg) == Respond(st, <<"error">>, <<StrOf(msg)>>)
NoResponse == [status |-> 0, body |-> Undef]

\* const { a, b } = body throws a TypeError for a null body; any other JSON
\* value destructures, giving undefined for what it lacks.
Destructures(r) == r.parses /\ ~Nullish(r.body)

IsSpaceChar(a) == a \in {" ", "\n"}

RECURSIVE TrimCharsLeft(_)
TrimCharsLeft(chars) ==
  IF chars # <<>> /\ IsSpaceChar(Head(chars)) THEN TrimCharsLeft(Tail(chars)) ELSE chars

RECURSIVE TrimCharsRight(_)
TrimCharsRight(chars) ==
  IF chars # <<>> /\ IsSpaceChar(chars[Len(chars)])
  THEN TrimCharsRight(SubSeq(chars, 1, Len(chars) - 1))
  ELSE chars

\* query.trim()
TrimChars(chars) == TrimCharsRight(TrimCharsLeft(chars))

IsKind(v, k) == v = StrOf(k)

----------------------------------------------------------------------------
(* generate/route.ts *)

validTypes ==
  {"case-study", "multiple-choice", "essay", "test", "presentation", "project"}

\* GenQuery with the query trimmed
GenQueryTrimmed(r) ==
  LET query == Prop(r.body, "query") IN
  IF query.t = "str" THEN Str(TrimChars(query.cs)) ELSE query

\* const { query, assignmentType = "case-study" } = body
GenQuery(r) == Prop(r.body, "query")
GenAssignmentType(r) ==
  IF Prop(r.body, "assignmentType").t = "undef"
  THEN StrOf("case-study")
  ELSE Prop(r.body, "assignmentType")

\* BadQuery with the length test on the untrimmed query
BadQueryUntrimmed(query) ==
  Falsy(query) \/ query.t # "str" \/ query.cs = <<>>

\* !query || typeof query !== "string" || query.trim().length === 0
BadQuery(query) ==
  Falsy(query) \/ query.t # "str" \/ TrimChars(query.cs) = <<>>

\* validTypes.includes(assignmentType)
ValidType(assignmentType) == \E k \in validTypes : IsKind(assignmentType, k)

\* the message of the 400 response, "" for a request that passes validation
GenValidationError(r) ==
  IF BadQuery(GenQuery(r))
  THEN "Please provide a search query to generate an assignment."
  ELSE IF ~ValidType(GenAssignmentType(r))
  THEN "Invalid assignment type. Must be one of: ..."
  ELSE ""

\* process.env.OPENAI_API_KEY is truthy
GenKeyConfigured == apiKey

GenFailure == "Failed to generate assignment: <cause>. Please try again or check your API configuration."
KeyFailure == "OpenAI API key is not configured. Please add OPENAI_API_KEY to your .env.local file."

\* assignmentPrompt: the template of the kind with the query in it
GenerationPrompt(assignmentType, query) ==
  ObjOf(<<"kind", "topic or search query">>, <<assignmentType, query>>)

\* GenerateHandle with the credential looked at before the request
GenerateHandleKeyFirst(r) ==
  /\ endpoint' = "generate"
  /\ req' = r
  /\ modelText' = <<>>
  /\ data' = NoData
  /\ UNCHANGED <<apiKey, pageVars>>
  /\ IF ~Destructures(r) \/ ~GenKeyConfigured \/ GenValidationError(r) # ""
     THEN /\ response' =
               IF ~Destructures(r) THEN ErrorResponse(500, GenFailure)
               ELSE IF ~GenKeyConfigured THEN ErrorResponse(500, KeyFailure)
               ELSE ErrorResponse(400, GenValidationError(r))
          /\ pc' = "done" /\ calls' = 0 /\ prompt' = "none"
          /\ promptText' = Undef
          /\ completion' = "none"
     ELSE /\ response' = NoResponse
          /\ prompt' = GenAssignmentType(r).cs[1]
          /\ promptText' = GenerationPrompt(GenAssignmentType(r), GenQuery(r))
          /\ calls' = 1
          /\ completion' = "pending"
          /\ pc' = "calling"

\* POST, up to the await of generateText
GenerateHandle(r) ==
  /\ endpoint' = "generate"
  /\ req' = r
  /\ modelText' = <<>>
  /\ data' = NoData
  /\ UNCHANGED <<apiKey, pageVars>>
  /\ IF ~Destructures(r)
     THEN /\ response' = ErrorResponse(500, GenFailure)
          /\ pc' = "done" /\ calls' = 0 /\ prompt' = "none"
          /\ promptText' = Undef
          /\ completion' = "none"
     ELSE IF GenValidationError(r) # ""
     THEN /\ response' = ErrorResponse(400, GenValidationError(r))
          /\ pc' = "done" /\ calls' = 0 /\ prompt' = "none"
          /\ promptText' = Undef
          /\ completion' = "none"
     ELSE IF ~GenKeyConfigured
     THEN /\ response' = ErrorResponse(500, KeyFailure)
          /\ pc' = "done" /\ calls' = 0 /\ prompt' = "none"
          /\ promptText' = Undef
          /\ completion' = "none"
     ELSE /\ response' = NoResponse
          /\ prompt' = GenAssignmentType(r).cs[1]
          /\ promptText' = GenerationPrompt(GenAssignmentType(r), GenQuery(r))
          /\ calls' = 1
          /\ completion' = "pending"
          /\ pc' = "calling"

\* POST, from the resolution of generateText to the response
GenerateParse(text) ==
  /\ completion' = "resolved"
  /\ modelText' = text
  /\ pc' = "done"
  /\ LET assignmentData == GenExtract(text) IN
     /\ data' = assignmentData
     /\ response' =
          IF ~assignmentData.ok THEN ErrorResponse(500, GenFailure)
          ELSE Respond(200, <<"success", "assignment", "query", "assignmentType">>,
                       <<JTrue, assignmentData.v, GenQuery(req), GenAssignmentType(req)>>)
  /\ UNCHANGED <<apiKey, endpoint, req, calls, prompt, promptText, pageVars>>

\* a request arrives at /api/generate
GeneratePOST(requests) ==
  pc = "idle" /\ \E r \in requests : GenerateHandle(r)

\* generateText resolves to one of texts
GenerateCompletion(texts) ==
  pc = "calling" /\ endpoint = "generate" /\ \E text \in texts : GenerateParse(text)

\* GenerateCompletionFails with one retry of the call before the catch block
GenerateCompletionRetries ==
  /\ pc = "calling" /\ endpoint = "generate"
  /\ IF calls < 2
     THEN /\ calls' = calls + 1
          /\ UNCHANGED <<pc, completion, response>>
     ELSE /\ completion' = "rejected"
          /\ pc' = "done"
          /\ response' = ErrorResponse(500, GenFailure)
          /\ UNCHANGED calls
  /\ UNCHANGED <<apiKey, endpoint, req, prompt, promptText, modelText, data, pageVars>>

\* generateText rejects: the catch block answers
GenerateCompletionFails ==
  /\ pc = "calling" /\ endpoint = "generate"
  /\ completion' = "rejected"
  /\ pc' = "done"
  /\ response' = ErrorResponse(500, GenFailure)
  /\ UNCHANGED <<apiKey, endpoint, req, calls, prompt, promptText, modelText, data, pageVars>>

----------------------------------------------------------------------------
(* evaluate/route.ts *)

\* const { assignment, submission, assignmentType } = body
EvalAssignment(r) == Prop(r.body, "assignment")
EvalSubmission(r) == Prop(r.body, "submission")
EvalAssignmentType(r) == Prop(r.body, "assignmentType")

\* x.map(...) and x.reduce(...) throw a TypeError unless x is an array.
IsArr(v) == v.t = "arr"
Elems(v) == {v.items[i] : i \in 1..Len(v.items)}

levelNames == {"exemplary", "proficient", "developing", "beginning"}

\* ${assignment.rubric.categories.map(cat => ... cat.levels.<level>.description ...)}
\* is evaluated without a TypeError
RubricRenders(assignment) ==
  LET rubric == Prop(assignment, "rubric") IN
  /\ ~Nullish(rubric)
  /\ IsArr(Prop(rubric, "categories"))
  /\ \A cat \in Elems(Prop(rubric, "categories")) :
       /\ ~Nullish(cat)
       /\ ~Nullish(Prop(cat, "levels"))
       /\ \A l \in levelNames : ~Nullish(Prop(Prop(cat, "levels"), l))

\* the if / else if chain that picks the prompt template
PromptBranch(assignmentType, submission) ==
  LET type == Prop(submission, "type") IN
  IF IsKind(assignmentType, "multiple-choice") /\ IsKind(type, "multiple-choice")
  THEN "multiple-choice"
  ELSE IF IsKind(assignmentType, "essay") /\ IsKind(type, "essay") THEN "essay"
  ELSE IF IsKind(assignmentType, "test") /\ IsKind(type, "test") THEN "test"
  ELSE IF IsKind(assignmentType, "case-study") /\ IsKind(type, "case-study")
  THEN "case-study"
  ELSE "generic"

\* the template of the branch is evaluated without a TypeError
PromptBuilds(branch, assignment, submission) ==
  CASE branch = "multiple-choice" ->
         /\ IsArr(Prop(assignment, "questions"))
         /\ \A q \in Elems(Prop(assignment, "questions")) :
              /\ ~Nullish(q)
              /\ ~Nullish(Prop(submission, "answers"))
              /\ ~Nullish(Prop(assignment, "answerKey"))
              /\ ~Nullish(Prop(q, "number"))
         /\ RubricRenders(assignment)
    [] branch = "essay" ->
         /\ Prop(submission, "text").t = "str"
         /\ IsArr(Prop(assignment, "requirements"))
         /\ RubricRenders(assignment)
    [] branch = "test" ->
         /\ IsArr(Prop(assignment, "questions"))
         /\ \A q \in Elems(Prop(assignment, "questions")) :
              ~Nullish(Prop(submission, "answers")) /\ ~Nullish(q)
         /\ ~Nullish(Prop(assignment, "answerKey"))
         /\ RubricRenders(assignment)
    [] branch = "case-study" ->
         /\ IsArr(Prop(assignment, "tasks"))
         /\ Prop(assignment, "tasks").items # <<>>
              => ~Nullish(Prop(submission, "responses"))
         /\ RubricRenders(assignment)
    [] OTHER -> RubricRenders(assignment)

\* RoundDiv with Math.floor
FloorDiv(num, den) ==
  IF den > 0 THEN num \div den ELSE (0 - num) \div (0 - den)

\* Math.round(num / den) for integers, den # 0: the nearest integer, a half
\* rounding up.
RoundDiv(num, den) ==
  IF den > 0 THEN (2 * num + den) \div (2 * den)
  ELSE (2 * (0 - num) + (0 - den)) \div (2 * (0 - den))

\* String(n) of a question number, the property key of answers[q.number]
Digits == <<"1", "2", "3", "4">>
ToKey(v) ==
  IF v.t = "num" /\ v.n \in 1..Len(Digits) THEN Digits[v.n]
  ELSE IF v.t = "str" /\ v.cs # <<>> THEN v.cs[1]
  ELSE "?"

\* a === b: values of the same type and value; an object or an array equals
\* only itself, and two values read from the request are never the same object
StrictEquals(a, b) == a = b /\ a.t \notin {"obj", "arr"}

\* AddPoints counting the question in place of its points
AddPointsCount(sum, points) == [num |-> sum.num, n |-> sum.n + 1]

\* sum + q.points: num is FALSE once the sum is NaN or a string
AddPoints(sum, points) ==
  IF sum.num /\ points.t \in {"num", "bool"} THEN [num |-> TRUE, n |-> sum.n + points.n]
  ELSE IF sum.num /\ points.t = "null" THEN sum
  ELSE [num |-> FALSE, n |-> 0]

\* the element of questionDetails for the question q
QuestionDetail(q, answers, answerKey) ==
  LET studentAnswer == Prop(answers, ToKey(Prop(q, "number")))
      correctAnswer == Prop(answerKey, ToKey(Prop(q, "number")))
      isCorrect == StrictEquals(studentAnswer, correctAnswer)
  IN [question |-> Prop(q, "question"),
      studentAnswer |-> studentAnswer,
      correctAnswer |-> correctAnswer,
      isCorrect |-> isCorrect,
      points |-> Prop(q, "points"),
      earnedPoints |-> IF isCorrect THEN Prop(q, "points") ELSE Num(0)]

\* questions.map(q => ...): correctCount, totalPoints and questionDetails
\* after the questions of qs, given the values in acc
RECURSIVE Score(_, _, _, _)
Score(qs, answers, answerKey, acc) ==
  IF qs = <<>> THEN acc
  ELSE LET d == QuestionDetail(Head(qs), answers, answerKey) IN
       Score(Tail(qs), answers, answerKey,
             [correctCount |-> acc.correctCount + (IF d.isCorrect THEN 1 ELSE 0),
              totalPoints |-> IF d.isCorrect
                              THEN AddPoints(acc.totalPoints, d.points)
                              ELSE acc.totalPoints,
              questionDetails |-> Append(acc.questionDetails, d)])

\* questions.reduce((sum, q) => sum + q.points, 0)
RECURSIVE SumPoints(_, _)
SumPoints(qs, sum) ==
  IF qs = <<>> THEN sum
  ELSE SumPoints(Tail(qs), AddPoints(sum, Prop(Head(qs), "points")))

\* ${x} for a sum: the number, or NaN (a string for a concatenation)
Shown(sum) == IF sum.num THEN Num(sum.n) ELSE StrOf("NaN")

\* ${Math.round((totalPoints / possible) * 100)}
ShownPercentage(totalPoints, possible) ==
  IF totalPoints.num /\ possible.num /\ possible.n # 0
  THEN Num(RoundDiv(100 * totalPoints.n, possible.n))
  ELSE StrOf("NaN")

\* one entry of the QUESTION-BY-QUESTION BREAKDOWN
BreakdownEntry(d) ==
  ObjOf(<<"question", "Student Answer", "Correct Answer", "Result", "Points", "of">>,
        <<OrUndefined(d.question), OrUndefined(d.studentAnswer),
          OrUndefined(d.correctAnswer),
          StrOf(IF d.isCorrect THEN "Correct" ELSE "Incorrect"),
          OrUndefined(d.earnedPoints), OrUndefined(d.points)>>)

\* ${assignment.rubric.categories.map(...)}: name and points of each category
RubricText(assignment) ==
  LET cats == Prop(Prop(assignment, "rubric"), "categories").items IN
  Arr([i \in 1..Len(cats) |->
        ObjOf(<<"name", "points">>,
              <<OrUndefined(Prop(cats[i], "name")), OrUndefined(Prop(cats[i], "points"))>>)])

\* the multiple-choice template with its interpolations
MultipleChoicePrompt(assignment, submission) ==
  LET questions == Prop(assignment, "questions").items
      s == Score(questions, Prop(submission, "answers"), Prop(assignment, "answerKey"),
                 [correctCount |-> 0, totalPoints |-> [num |-> TRUE, n |-> 0],
                  questionDetails |-> <<>>])
      possible == SumPoints(questions, [num |-> TRUE, n |-> 0])
  IN ObjOf(<<"ASSIGNMENT", "Correct Answers", "out of", "Points Earned",
             "points out of", "Percentage", "BREAKDOWN", "RUBRIC">>,
           <<OrUndefined(Prop(assignment, "title")), Num(s.correctCount),
             Num(Len(questions)), Shown(s.totalPoints), Shown(possible),
             ShownPercentage(s.totalPoints, possible),
             Arr([i \in 1..Len(questions) |-> BreakdownEntry(s.questionDetails[i])]),
             RubricText(assignment)>>)

\* submission.answers[q.number] || "No answer provided"
AnswerOrNone(answers, q) ==
  OrElse(Prop(answers, ToKey(Prop(q, "number"))), StrOf("No answer provided"))

\* the test template with its interpolations: the answers and the answer key
\* are listed side by side
TestPrompt(assignment, submission) ==
  LET questions == Prop(assignment, "questions").items
      answerKey == Prop(assignment, "answerKey")
  IN ObjOf(<<"ASSIGNMENT", "STUDENT ANSWERS", "ANSWER KEY", "RUBRIC">>,
           <<OrUndefined(Prop(assignment, "title")),
             Arr([i \in 1..Len(questions) |->
                   ObjOf(<<"number", "type", "question", "Student Answer", "Points">>,
                         <<OrUndefined(Prop(questions[i], "number")),
                           OrUndefined(Prop(questions[i], "type")),
                           OrUndefined(Prop(questions[i], "question")),
                           AnswerOrNone(Prop(submission, "answers"), questions[i]),
                           OrUndefined(Prop(questions[i], "points"))>>)]),
             Obj(answerKey.keys, answerKey.items),
             RubricText(assignment)>>)

\* text.trim().split(/\s+/).filter(Boolean).length
WordCount(chars) ==
  Cardinality({i \in 1..Len(chars) :
                 ~IsSpaceChar(chars[i]) /\ (i = 1 \/ IsSpaceChar(chars[i - 1]))})

\* the essay template with its interpolations
EssayPrompt(assignment, submission) ==
  ObjOf(<<"ASSIGNMENT", "ESSAY PROMPT", "STUDENT ESSAY", "WORD COUNT",
          "REQUIREMENTS", "RUBRIC">>,
        <<OrUndefined(Prop(assignment, "title")), OrUndefined(Prop(assignment, "prompt")),
          Prop(submission, "text"), Num(WordCount(Prop(submission, "text").cs)),
          Prop(assignment, "requirements"), RubricText(assignment)>>)

\* the case-study template with its interpolations
CaseStudyPrompt(assignment, submission) ==
  LET tasks == Prop(assignment, "tasks").items IN
  ObjOf(<<"ASSIGNMENT", "CASE STUDY SCENARIO", "STUDENT RESPONSES", "RUBRIC">>,
        <<OrUndefined(Prop(assignment, "title")),
          OrUndefined(Prop(assignment, "scenario")),
          Arr([i \in 1..Len(tasks) |->
                ObjOf(<<"Task", "Response">>,
                      <<tasks[i],
                        OrElse(Prop(Prop(submission, "responses"), ToKey(Num(i))),
                               StrOf("No response provided"))>>)]),
          RubricText(assignment)>>)

\* the generic template with its interpolations
GenericPrompt(assignmentType, assignment, submission) ==
  ObjOf(<<"kind", "ASSIGNMENT", "STUDENT SUBMISSION", "RUBRIC">>,
        <<assignmentType, OrUndefined(Prop(assignment, "title")),
          OrUndefined(Prop(submission, "text")), RubricText(assignment)>>)

\* evaluationPrompt
EvaluationPrompt(branch, assignmentType, assignment, submission) ==
  CASE branch = "multiple-choice" -> MultipleChoicePrompt(assignment, submission)
    [] branch = "essay" -> EssayPrompt(assignment, submission)
    [] branch = "test" -> TestPrompt(assignment, submission)
    [] branch = "case-study" -> CaseStudyPrompt(assignment, submission)
    [] OTHER -> GenericPrompt(assignmentType, assignment, submission)

\* EvalValidationError without the check of the submission
EvalValidationErrorNoSubmission(r) ==
  IF Falsy(EvalAssignment(r)) THEN "Assignment data is required."
  ELSE IF Falsy(EvalAssignmentType(r)) THEN "Assignment type is required."
  ELSE ""

\* the message of the 400 response, "" for a request that passes validation
EvalValidationError(r) ==
  IF Falsy(EvalAssignment(r)) THEN "Assignment data is required."
  ELSE IF Falsy(EvalSubmission(r)) THEN "Submission data is required."
  ELSE IF Falsy(EvalAssignmentType(r)) THEN "Assignment type is required."
  ELSE ""

\* the credential taken for granted
EvalKeyAssumed == TRUE

\* process.env.OPENAI_API_KEY is truthy
EvalKeyConfigured == apiKey

EvalFailure == "Failed to evaluate submission: <cause>. Please try again."

\* POST, up to the await of generateText
EvaluateHandle(r) ==
  /\ endpoint' = "evaluate"
  /\ req' = r
  /\ modelText' = <<>>
  /\ data' = NoData
  /\ UNCHANGED <<apiKey, pageVars>>
  /\ IF ~Destructures(r)
     THEN /\ response' = ErrorResponse(500, EvalFailure)
          /\ pc' = "done" /\ calls' = 0 /\ prompt' = "none"
          /\ promptText' = Undef
          /\ completion' = "none"
     ELSE IF EvalValidationError(r) # ""
     THEN /\ response' = ErrorResponse(400, EvalValidationError(r))
          /\ pc' = "done" /\ calls' = 0 /\ prompt' = "none"
          /\ promptText' = Undef
          /\ completion' = "none"
     ELSE IF ~EvalKeyConfigured
     THEN /\ response' = ErrorResponse(500, KeyFailure)
          /\ pc' = "done" /\ calls' = 0 /\ prompt' = "none"
          /\ promptText' = Undef
          /\ completion' = "none"
     ELSE LET branch == PromptBranch(EvalAssignmentType(r), EvalSubmission(r)) IN
          IF ~PromptBuilds(branch, EvalAssignment(r), EvalSubmission(r))
          THEN /\ response' = ErrorResponse(500, EvalFailure)
               /\ pc' = "done" /\ calls' = 0 /\ prompt' = "none"
               /\ promptText' = Undef
               /\ completion' = "none"
          ELSE /\ response' = NoResponse
               /\ prompt' = branch
               /\ promptText' = EvaluationPrompt(branch, EvalAssignmentType(r),
                                                 EvalAssignment(r), EvalSubmission(r))
               /\ calls' = 1
               /\ completion' = "pending"
               /\ pc' = "calling"

\* AddScore as sum + item.score: a missing score turns the sum into NaN
AddScoreNoDefault(sum, item) ==
  LET score == Prop(item, "score") IN
  IF sum.num /\ score.t = "num" THEN [num |-> TRUE, n |-> sum.n + score.n]
  ELSE [num |-> FALSE, n |-> 0]

\* sum + (item.score || 0): num is FALSE once a score that is neither falsy
\* nor a number has turned the sum into a string concatenation.
AddScore(sum, item) ==
  LET score == Prop(item, "score") IN
  IF Falsy(score) THEN sum
  ELSE IF sum.num /\ score.t = "num" THEN [num |-> TRUE, n |-> sum.n + score.n]
  ELSE IF sum.num /\ score.t = "bool" THEN [num |-> TRUE, n |-> sum.n + 1]
  ELSE [num |-> FALSE, n |-> 0]

\* rubricAssessment.reduce((sum, item) => sum + (item.score || 0), 0)
RECURSIVE Reduce(_, _)
Reduce(list, sum) ==
  IF list = <<>> THEN sum ELSE Reduce(Tail(list), AddScore(sum, Head(list)))

\* Reduces with a missing rubricAssessment taken for an empty list
ReducesOrEmpty(evaluationData) ==
  /\ ~Nullish(evaluationData)
  /\ \/ Prop(evaluationData, "rubricAssessment").t = "undef"
     \/ IsArr(Prop(evaluationData, "rubricAssessment"))
  /\ \A item \in Elems(Prop(evaluationData, "rubricAssessment")) : ~Nullish(item)

\* the reduce runs without a TypeError
Reduces(evaluationData) ==
  /\ ~Nullish(evaluationData)
  /\ IsArr(Prop(evaluationData, "rubricAssessment"))
  /\ \A item \in Elems(Prop(evaluationData, "rubricAssessment")) : ~Nullish(item)

\* Percentage with the divisor guarded: 0 for a divisor that is zero or absent
PercentageGuarded(sum, maxScore) ==
  IF sum.num /\ maxScore.t = "num" /\ maxScore.n # 0
  THEN Num(RoundDiv(100 * sum.n, maxScore.n))
  ELSE Num(0)

\* Math.round((totalScore / maxScore) * 100) as JSON.stringify writes it:
\* NaN and Infinity (a divisor that is zero or absent) are written as null.
Percentage(sum, maxScore) ==
  IF sum.num /\ maxScore.t = "num" /\ maxScore.n # 0
  THEN Num(RoundDiv(100 * sum.n, maxScore.n))
  ELSE JNull

EvaluationResults(evaluationData, assignment) ==
  LET sum == Reduce(Prop(evaluationData, "rubricAssessment").items,
                    [num |-> TRUE, n |-> 0])
      totalScore == IF sum.num THEN Num(sum.n) ELSE StrOf("<concatenation>")
      maxScore == Prop(Prop(assignment, "rubric"), "totalPoints")
  IN Serialize(
       <<"totalScore", "maxScore", "percentage", "feedback", "detailedFeedback",
         "rubricScores">>,
       <<totalScore, maxScore, Percentage(sum, maxScore),
         OrElse(Prop(evaluationData, "overallFeedback"), StrOf("Evaluation complete.")),
         Prop(evaluationData, "detailedFeedback"),
         OrElse(Prop(evaluationData, "rubricAssessment"), Arr(<<>>))>>,
       Obj(<<>>, <<>>))

\* POST, from the resolution of generateText to the response
EvaluateParse(text) ==
  /\ completion' = "resolved"
  /\ modelText' = text
  /\ pc' = "done"
  /\ LET evaluationData == EvalExtract(text) IN
     /\ data' = evaluationData
     /\ response' =
          IF ~evaluationData.ok \/ ~Reduces(evaluationData.v)
          THEN ErrorResponse(500, EvalFailure)
          ELSE Respond(200, <<"success", "results">>,
                       <<JTrue, EvaluationResults(evaluationData.v, EvalAssignment(req))>>)
  /\ UNCHANGED <<apiKey, endpoint, req, calls, prompt, promptText, pageVars>>

\* a request arrives at /api/evaluate
EvaluatePOST(requests) ==
  pc = "idle" /\ \E r \in requests : EvaluateHandle(r)

\* generateText resolves to one of texts
EvaluateCompletion(texts) ==
  pc = "calling" /\ endpoint = "evaluate" /\ \E text \in texts : EvaluateParse(text)

\* EvaluateCompletionFails with the rejection escaping the handler
EvaluateCompletionEscapes ==
  /\ pc = "calling" /\ endpoint = "evaluate"
  /\ completion' = "rejected"
  /\ pc' = "done"
  /\ UNCHANGED <<apiKey, endpoint, req, calls, prompt, promptText, modelText, data,
                 response, pageVars>>

\* generateText rejects: the catch block answers
EvaluateCompletionFails ==
  /\ pc = "calling" /\ endpoint = "evaluate"
  /\ completion' = "rejected"
  /\ pc' = "done"
  /\ response' = ErrorResponse(500, EvalFailure)
  /\ UNCHANGED <<apiKey, endpoint, req, calls, prompt, promptText, modelText, data, pageVars>>

----------------------------------------------------------------------------
(* Requests and model responses *)

MaxQueryLen == 2    \* characters of a query
MaxItems == 2       \* entries of a rubricAssessment list
MaxProse == 1       \* lexemes of prose before and after the JSON of a response

Seqs(S, n) == UNION {[1..k -> S] : k \in 0..n}

NullBody == [parses |-> TRUE, body |-> JNull]
BadJson == [parses |-> FALSE, body |-> Undef]
Body(b) == [parses |-> TRUE, body |-> b]

Queries ==
  {Undef, JNull, Num(5)} \cup {Str(cs) : cs \in Seqs({" ", "topic"}, MaxQueryLen)}

TypeValues ==
  {Undef, Str(<<>>), StrOf("bogus")} \cup {StrOf(k) : k \in validTypes}

GenerateRequests ==
  {NullBody, BadJson}
  \cup {Body(ObjOf(<<"query", "assignmentType">>, <<q, t>>)) :
          q \in Queries, t \in TypeValues \cup {Num(1)}}

Level == ObjOf(<<"points", "description">>, <<Num(25), StrOf("d")>>)
Category ==
  ObjOf(<<"name", "points", "levels">>,
        <<StrOf("c"), Num(25),
          ObjOf(<<"exemplary", "proficient", "developing", "beginning">>,
                <<Level, Level, Level, Level>>)>>)
Rubric(totalPoints) ==
  ObjOf(<<"categories", "totalPoints">>, <<Arr(<<Category, Category>>), totalPoints>>)

Question(n) == ObjOf(<<"number", "question", "points">>, <<Num(n), StrOf("q"), Num(5)>>)
AnswerMap(a1, a2) == ObjOf(<<"1", "2">>, <<a1, a2>>)

\* an assignment of kind k, as the generate route returns it
AssignmentOf(k, totalPoints) ==
  LET common == ObjOf(<<"title", "rubric">>, <<StrOf("t"), Rubric(totalPoints)>>) IN
  CASE k \in {"multiple-choice", "test"} ->
         SetMember(SetMember(common, "questions", Arr(<<Question(1), Question(2)>>)),
                   "answerKey", AnswerMap(StrOf("A"), StrOf("B")))
    [] k = "essay" ->
         SetMember(SetMember(common, "prompt", StrOf("p")),
                   "requirements", Arr(<<StrOf("r")>>))
    [] k = "case-study" ->
         SetMember(SetMember(common, "scenario", StrOf("s")),
                   "tasks", Arr(<<StrOf("t1"), StrOf("t2")>>))
    [] OTHER -> SetMember(common, "requirements", Arr(<<StrOf("r")>>))

\* a submission of kind k, as the submission forms build it
SubmissionOf(k) ==
  LET typed == ObjOf(<<"type">>, <<StrOf(k)>>) IN
  CASE k \in {"multiple-choice", "test"} ->
         SetMember(typed, "answers", AnswerMap(StrOf("A"), StrOf("C")))
    [] k = "case-study" ->
         SetMember(typed, "responses", AnswerMap(StrOf("r1"), StrOf("r2")))
    [] OTHER -> SetMember(typed, "text", StrOf("text"))

Assignments ==
  {Undef, Obj(<<>>, <<>>)}
  \cup {AssignmentOf(k, Num(50)) : k \in validTypes}
  \cup {AssignmentOf("essay", tp) : tp \in {Undef, Num(0), Num(40)}}

Submissions ==
  {Undef, Obj(<<>>, <<>>), ObjOf(<<"type">>, <<StrOf("essay")>>)}
  \cup {SubmissionOf(k) : k \in validTypes}

\* a multiple-choice or test assignment of two questions, the first worth 5
\* points, with the answer key A for question 1 and key2 for question 2
QuizOf(k, points2, key2) ==
  LET q2 == ObjOf(<<"number", "question", "points">>, <<Num(2), StrOf("q"), points2>>) IN
  ObjOf(<<"title", "rubric", "questions", "answerKey">>,
        <<StrOf("t"), Rubric(Num(50)), Arr(<<Question(1), q2>>),
          AnswerMap(StrOf("A"), key2)>>)

\* the answers of a multiple-choice or test submission; Undef is a question
\* left unanswered
Answers == {Undef, StrOf("A"), StrOf("B"), StrOf("C")}
AnswerSheet(k, a1, a2) ==
  ObjOf(<<"type", "answers">>, <<StrOf(k), AnswerMap(a1, a2)>>)

QuizRequests ==
  {Body(ObjOf(<<"assignment", "submission", "assignmentType">>,
              <<QuizOf(k, points2, key2), AnswerSheet(k, a1, a2), StrOf(k)>>)) :
     k \in {"multiple-choice", "test"}, points2 \in {Num(5), Num(10)},
     key2 \in {StrOf("B"), Undef}, a1 \in Answers, a2 \in Answers}

EvaluateRequests ==
  {NullBody, BadJson}
  \cup {Body(ObjOf(<<"assignment", "submission", "assignmentType">>, <<a, s, t>>)) :
          a \in Assignments, s \in Submissions, t \in TypeValues}
  \cup QuizRequests

ScoreValues == {Undef, Num(0), Num(15), Num(20), Num(30)}

Item(score) == ObjOf(<<"score">>, <<score>>)
EvaluationData(scores) ==
  ObjOf(<<"rubricAssessment">>, <<Arr([i \in 1..Len(scores) |-> Item(scores[i])])>>)

EvaluationDatas == {EvaluationData(scores) : scores \in Seqs(ScoreValues, MaxItems)}

Sample == EvaluationData(<<Num(20), Num(15)>>)

\* JSON objects a response may carry
JsonObjects ==
  {Obj(<<>>, <<>>), ObjOf(<<"title">>, <<StrOf("t")>>),
   ObjOf(<<"rubricAssessment">>, <<Num(1)>>),
   ObjOf(<<"rubricAssessment">>, <<Arr(<<JNull>>)>>), Sample}

\* JSON values that are not objects
JsonScalars == {Num(42), JNull, StrOf("s"), Arr(<<Num(1)>>)}

FenceJson(txt) == <<Fence, JsonWord, Newline>> \o txt \o <<Newline, Fence>>
FencePlain(txt) == <<Fence, Newline>> \o txt \o <<Newline, Fence>>
InProse(txt) == <<Word, Space>> \o txt \o <<Space, Word>>

\* responses of the model: every evaluation, bare; the other values bare,
\* fenced and in prose; texts that hold no JSON
ModelTexts ==
  {Stringify(J) : J \in EvaluationDatas \cup JsonObjects \cup JsonScalars}
  \cup {FenceJson(Stringify(J)) : J \in JsonObjects \cup JsonScalars}
  \cup {InProse(Stringify(J)) : J \in JsonObjects \cup JsonScalars}
  \cup {<<>>, <<Word>>, <<LBrace>>, <<RBrace, Word, LBrace>>, <<LBrace, Word, RBrace>>}

\* the lexemes of the prose around the JSON of a response
ProseLexemes ==
  {Word, Space, Newline, JsonWord, Fence, LBrack, RBrack, LBrace, RBrace}

Proses == Seqs(ProseLexemes, MaxProse)

\* what lies between the prose: nothing (Undef), or a value, bare or fenced
RawObjects == {Obj(<<>>, <<>>), ObjOf(<<"title">>, <<StrOf("t")>>), Sample}
RawScalars == {Num(42), JNull, Arr(<<Num(1)>>)}
RawCores ==
  {Stringify(J) : J \in RawObjects \cup RawScalars \cup {Undef}}
  \cup {FenceJson(Stringify(J)) : J \in RawObjects \cup {Num(42)}}
  \cup {FencePlain(Stringify(J)) : J \in {Sample, Num(42)}}

RawTexts == {pre \o core \o post : pre \in Proses, post \in Proses, core \in RawCores}

SampleGenerateRequest ==
  Body(ObjOf(<<"query", "assignmentType">>, <<StrOf("topic"), StrOf("essay")>>))
SampleEvaluateRequest ==
  Body(ObjOf(<<"assignment", "submission", "assignmentType">>,
             <<AssignmentOf("essay", Num(50)), SubmissionOf("essay"), StrOf("essay")>>))

----------------------------------------------------------------------------
(* The page: Home (generate/route.ts, lines 416-682) *)

\* the views Home and AssignmentDisplay render, in the order of their returns
FormView == Falsy(pageAssignment)
InvalidView ==
  /\ ~Falsy(pageAssignment)
  /\ \E f \in {"title", "objectives", "rubric"} : Falsy(Prop(pageAssignment, f))
DisplayMounted == ~Falsy(pageAssignment)
ValidDisplay == DisplayMounted /\ ~InvalidView
ResultsView == ValidDisplay /\ ~Falsy(evaluationResults)
SubmissionView == ValidDisplay /\ Falsy(evaluationResults) /\ showSubmission
EvaluatingView ==
  ValidDisplay /\ Falsy(evaluationResults) /\ ~showSubmission /\ isEvaluating
AssignmentView ==
  ValidDisplay /\ Falsy(evaluationResults) /\ ~showSubmission /\ ~isEvaluating

\* a fetch in flight: the route, the body sent, what the handler that awaits
\* it captured (query, kind), and whether the component that awaits it has
\* been unmounted since
Fetch(route, body, query, kind) ==
  [route |-> route, body |-> body, query |-> query, kind |-> kind, orphan |-> FALSE]

\* the outcome of a fetch and of response.json(): net is FALSE when fetch
\* rejects, parses is FALSE when the body is not JSON
Outcome(ok, val) == [net |-> TRUE, ok |-> ok, parses |-> TRUE, data |-> val]
NetworkError == [net |-> FALSE, ok |-> FALSE, parses |-> FALSE, data |-> Undef]
NotJson(ok) == [net |-> TRUE, ok |-> ok, parses |-> FALSE, data |-> Undef]

\* the message of new Error(v)
MessageOf(v) == IF v.t = "str" THEN v ELSE StrOf("<String(v)>")

\* the message of the error the try block of a handler throws for an
\* outcome, JNull when it throws none; payload is the member a success needs
Thrown(o, payload, fallback, invalid) ==
  IF ~o.net THEN StrOf("Failed to fetch")
  ELSE IF ~o.parses THEN StrOf("Unexpected token in JSON")
  ELSE IF Nullish(o.data) THEN StrOf("Cannot read properties of null")
  ELSE IF ~o.ok THEN MessageOf(OrElse(Prop(o.data, "error"), StrOf(fallback)))
  ELSE IF ~Falsy(Prop(o.data, "success")) /\ ~Falsy(Prop(o.data, payload)) THEN JNull
  ELSE StrOf(invalid)

\* the state of AssignmentSubmission when it is mounted
FormReset ==
  /\ mcAnswers' = Obj(<<>>, <<>>)
  /\ essayText' = <<>>
  /\ mixedAnswers' = Obj(<<>>, <<>>)
  /\ caseStudyResponses' = Obj(<<>>, <<>>)

\* the state of AssignmentDisplay when it is mounted
DisplayReset ==
  /\ showSubmission' = FALSE
  /\ isEvaluating' = FALSE
  /\ evaluationResults' = JNull
  /\ FormReset

\* AssignmentDisplay is unmounted: the fetches it awaits lose their component
Orphaned(fs) == [i \in 1..Len(fs) |->
                  IF fs[i].route = "evaluate" THEN [fs[i] EXCEPT !.orphan = TRUE]
                  ELSE fs[i]]

\* onChange of the search box
SetSearchQuery(chars) ==
  /\ FormView /\ ~isGenerating
  /\ searchQuery' = chars
  /\ lastEvent' = "setSearchQuery" /\ alerted' = ""
  /\ UNCHANGED <<pageAssignmentType, isGenerating, pageAssignment, generatedQuery,
                 generatedAssignmentType, error, displayVars, formVars, fetches>>
  /\ UNCHANGED routeVars

\* onChange of the kind selector
SetAssignmentType(kind) ==
  /\ FormView /\ ~isGenerating
  /\ pageAssignmentType' = StrOf(kind)
  /\ lastEvent' = "setAssignmentType" /\ alerted' = ""
  /\ UNCHANGED <<searchQuery, isGenerating, pageAssignment, generatedQuery,
                 generatedAssignmentType, error, displayVars, formVars, fetches>>
  /\ UNCHANGED routeVars

\* HandleGenerateAssignment with the Enter key not looking at isGenerating
HandleGenerateAssignmentAnytime ==
  /\ FormView
  /\ error' = IF TrimChars(searchQuery) = <<>>
              THEN StrOf("Please enter a search query or topic to generate an assignment.")
              ELSE JNull
  /\ pageAssignment' = JNull
  /\ isGenerating' = (TrimChars(searchQuery) # <<>>)
  /\ fetches' = IF TrimChars(searchQuery) = <<>> THEN fetches
                ELSE Append(fetches,
                            Fetch("generate",
                                  ObjOf(<<"query", "assignmentType">>,
                                        <<Str(searchQuery), pageAssignmentType>>),
                                  searchQuery, pageAssignmentType))
  /\ lastEvent' = IF TrimChars(searchQuery) = <<>> THEN "generateRefused" ELSE "generate"
  /\ alerted' = ""
  /\ DisplayReset
  /\ UNCHANGED <<searchQuery, pageAssignmentType, generatedQuery,
                 generatedAssignmentType>>
  /\ UNCHANGED routeVars

\* handleGenerateAssignment, up to the await of fetch: the click of the button
\* (disabled while generating or for a blank query) or the Enter key in the
\* search box (ignored while generating)
HandleGenerateAssignment ==
  /\ FormView /\ ~isGenerating
  /\ error' = IF TrimChars(searchQuery) = <<>>
              THEN StrOf("Please enter a search query or topic to generate an assignment.")
              ELSE JNull
  /\ pageAssignment' = JNull
  /\ isGenerating' = (TrimChars(searchQuery) # <<>>)
  /\ fetches' = IF TrimChars(searchQuery) = <<>> THEN fetches
                ELSE Append(fetches,
                            Fetch("generate",
                                  ObjOf(<<"query", "assignmentType">>,
                                        <<Str(searchQuery), pageAssignmentType>>),
                                  searchQuery, pageAssignmentType))
  /\ lastEvent' = IF TrimChars(searchQuery) = <<>> THEN "generateRefused" ELSE "generate"
  /\ alerted' = ""
  /\ DisplayReset
  /\ UNCHANGED <<searchQuery, pageAssignmentType, generatedQuery,
                 generatedAssignmentType>>
  /\ UNCHANGED routeVars

\* fs without its i-th element
Remove(fs, i) == SubSeq(fs, 1, i - 1) \o SubSeq(fs, i + 1, Len(fs))

\* GenerationSettled with the loading flag cleared on the success path only
GenerationSettledNoFinally(i, o) ==
  LET f == fetches[i]
      thrown == Thrown(o, "assignment", "Failed to generate assignment. Please try again.",
                       "Invalid response from server. Please try again.")
  IN /\ f.route = "generate"
     /\ fetches' = Remove(fetches, i)
     /\ isGenerating' = (thrown # JNull)
     /\ error' = thrown
     /\ IF thrown = JNull
        THEN /\ pageAssignment' = Prop(o.data, "assignment")
             /\ generatedQuery' = OrElse(Prop(o.data, "query"), Str(f.query))
             /\ generatedAssignmentType' = OrElse(Prop(o.data, "assignmentType"), f.kind)
        ELSE UNCHANGED <<pageAssignment, generatedQuery, generatedAssignmentType>>
     /\ lastEvent' = IF thrown = JNull THEN "generated" ELSE "generateFailed"
     /\ alerted' = ""
     /\ UNCHANGED <<searchQuery, pageAssignmentType, displayVars, formVars>>
     /\ UNCHANGED routeVars

\* handleGenerateAssignment, from the settling of the fetch i with outcome o
\* to the end of the finally block
GenerationSettled(i, o) ==
  LET f == fetches[i]
      thrown == Thrown(o, "assignment", "Failed to generate assignment. Please try again.",
                       "Invalid response from server. Please try again.")
  IN /\ f.route = "generate"
     /\ fetches' = Remove(fetches, i)
     /\ isGenerating' = FALSE
     /\ error' = thrown
     /\ IF thrown = JNull
        THEN /\ pageAssignment' = Prop(o.data, "assignment")
             /\ generatedQuery' = OrElse(Prop(o.data, "query"), Str(f.query))
             /\ generatedAssignmentType' = OrElse(Prop(o.data, "assignmentType"), f.kind)
        ELSE UNCHANGED <<pageAssignment, generatedQuery, generatedAssignmentType>>
     /\ lastEvent' = IF thrown = JNull THEN "generated" ELSE "generateFailed"
     /\ alerted' = ""
     /\ UNCHANGED <<searchQuery, pageAssignmentType, displayVars, formVars>>
     /\ UNCHANGED routeVars

\* what the fetch f of a generation may settle with: no response, a body
\* that is not JSON, an error response of the route, a body without the
\* members of a success, and the success response of the route for one of
\* assignments
GenerateOutcomes(f, assignments) ==
  {NetworkError, NotJson(FALSE), Outcome(FALSE, ErrorResponse(500, KeyFailure).body),
   Outcome(FALSE, Obj(<<>>, <<>>)), Outcome(TRUE, Obj(<<>>, <<>>)), Outcome(TRUE, JNull)}
  \cup {Outcome(TRUE, Respond(200, <<"success", "assignment", "query", "assignmentType">>,
                              <<JTrue, a, Prop(f.body, "query"),
                                Prop(f.body, "assignmentType")>>).body) :
          a \in assignments}

\* the fetch of a generation settles
GenerationSettles(assignments) ==
  /\ fetches # <<>>
  /\ \E i \in 1..Len(fetches) :
       \E o \in GenerateOutcomes(fetches[i], assignments) : GenerationSettled(i, o)

\* handleGenerateNew: the Generate New button of the assignment view, or of
\* the view of an invalid assignment
HandleGenerateNew ==
  /\ AssignmentView \/ InvalidView
  /\ pageAssignment' = JNull
  /\ error' = JNull
  /\ generatedQuery' = Str(<<>>)
  /\ DisplayReset
  /\ fetches' = Orphaned(fetches)
  /\ lastEvent' = "generateNew" /\ alerted' = ""
  /\ UNCHANGED <<searchQuery, pageAssignmentType, isGenerating, generatedAssignmentType>>
  /\ UNCHANGED routeVars

----------------------------------------------------------------------------
(* The page: AssignmentDisplay and AssignmentSubmission (AssignmentDisplay.tsx) *)

\* validTypes.includes(assignmentType) ? assignmentType : "case-study"
safeAssignmentType ==
  IF ValidType(generatedAssignmentType) THEN generatedAssignmentType
  ELSE StrOf("case-study")

\* "k" in assignment
HasMember(v, k) == v.t = "obj" /\ IndexOf(v.keys, k) # 0

\* the form AssignmentSubmission renders, and the branch handleSubmit takes
FormKind ==
  IF IsKind(safeAssignmentType, "multiple-choice") /\ HasMember(pageAssignment, "questions")
  THEN "multiple-choice"
  ELSE IF IsKind(safeAssignmentType, "essay") THEN "essay"
  ELSE IF IsKind(safeAssignmentType, "test") /\ HasMember(pageAssignment, "questions")
  THEN "test"
  ELSE IF IsKind(safeAssignmentType, "case-study") /\ HasMember(pageAssignment, "tasks")
  THEN "case-study"
  ELSE "generic"

\* onClick of Submit Assignment: setShowSubmission(true)
ShowSubmissionForm ==
  /\ AssignmentView
  /\ showSubmission' = TRUE
  /\ FormReset
  /\ lastEvent' = "showSubmission" /\ alerted' = ""
  /\ UNCHANGED <<homeVars, isEvaluating, evaluationResults, fetches>>
  /\ UNCHANGED routeVars

\* handleCancelSubmission
HandleCancelSubmission ==
  /\ SubmissionView
  /\ showSubmission' = FALSE
  /\ FormReset
  /\ lastEvent' = "cancelSubmission" /\ alerted' = ""
  /\ UNCHANGED <<homeVars, isEvaluating, evaluationResults, fetches>>
  /\ UNCHANGED routeVars

\* HandleBackFromResults leaving the assignment as Generate New does
HandleBackFromResultsLeaves ==
  /\ ResultsView
  /\ evaluationResults' = JNull
  /\ showSubmission' = FALSE
  /\ pageAssignment' = JNull
  /\ generatedQuery' = Str(<<>>)
  /\ lastEvent' = "backFromResults" /\ alerted' = ""
  /\ UNCHANGED <<searchQuery, pageAssignmentType, isGenerating, generatedAssignmentType,
                 error, isEvaluating, formVars, fetches>>
  /\ UNCHANGED routeVars

\* HandleBackFromResults reopening the submission form
HandleBackFromResultsReopens ==
  /\ ResultsView
  /\ evaluationResults' = JNull
  /\ showSubmission' = TRUE
  /\ lastEvent' = "backFromResults" /\ alerted' = ""
  /\ UNCHANGED <<homeVars, isEvaluating, formVars, fetches>>
  /\ UNCHANGED routeVars

\* handleBackFromResults
HandleBackFromResults ==
  /\ ResultsView
  /\ evaluationResults' = JNull
  /\ showSubmission' = FALSE
  /\ lastEvent' = "backFromResults" /\ alerted' = ""
  /\ UNCHANGED <<homeVars, isEvaluating, formVars, fetches>>
  /\ UNCHANGED routeVars

\* handleCopyAssignment: the clipboard write succeeds or fails
HandleCopyAssignment ==
  /\ AssignmentView
  /\ lastEvent' = "copyAssignment"
  /\ alerted' \in {"Assignment copied to clipboard!",
                   "Could not copy to clipboard. Please select and copy manually."}
  /\ UNCHANGED <<homeVars, displayVars, formVars, fetches>>
  /\ UNCHANGED routeVars

\* onClick of Copy Results (EvaluationResults.tsx)
CopyResults ==
  /\ ResultsView
  /\ lastEvent' = "copyResults"
  /\ alerted' = "Results copied to clipboard!"
  /\ UNCHANGED <<homeVars, displayVars, formVars, fetches>>
  /\ UNCHANGED routeVars

\* assignment.questions and assignment.tasks of the assignment on display
PageQuestions ==
  IF IsArr(Prop(pageAssignment, "questions")) THEN Prop(pageAssignment, "questions").items
  ELSE <<>>
PageTasks ==
  IF IsArr(Prop(pageAssignment, "tasks")) THEN Prop(pageAssignment, "tasks").items
  ELSE <<>>

\* onChange of an answer of the multiple-choice form: a radio button of one
\* of the options of a question
SetMcAnswer ==
  /\ SubmissionView /\ FormKind = "multiple-choice"
  /\ \E i \in 1..Len(PageQuestions) :
       LET q == PageQuestions[i] IN
       \E k \in 1..Len(Prop(q, "options").keys) :
         mcAnswers' = SetMember(mcAnswers, ToKey(Prop(q, "number")),
                                StrOf(Prop(q, "options").keys[k]))
  /\ lastEvent' = "setMcAnswer" /\ alerted' = ""
  /\ UNCHANGED <<homeVars, displayVars, essayText, mixedAnswers, caseStudyResponses,
                 fetches>>
  /\ UNCHANGED routeVars

\* onChange of an answer of the test form: a radio button for a question with
\* options, the text area for the others
SetMixedAnswer(texts) ==
  /\ SubmissionView /\ FormKind = "test"
  /\ \E i \in 1..Len(PageQuestions) :
       LET q == PageQuestions[i] IN
       \E val \in IF Falsy(Prop(q, "options")) THEN {Str(chars) : chars \in texts}
                  ELSE {StrOf(Prop(q, "options").keys[k]) :
                          k \in 1..Len(Prop(q, "options").keys)} :
         mixedAnswers' = SetMember(mixedAnswers, ToKey(Prop(q, "number")), val)
  /\ lastEvent' = "setMixedAnswer" /\ alerted' = ""
  /\ UNCHANGED <<homeVars, displayVars, mcAnswers, essayText, caseStudyResponses,
                 fetches>>
  /\ UNCHANGED routeVars

\* onChange of the text area of the essay form and of the generic form
SetEssayText(texts) ==
  /\ SubmissionView /\ FormKind \in {"essay", "generic"}
  /\ \E chars \in texts : essayText' = chars
  /\ lastEvent' = "setEssayText" /\ alerted' = ""
  /\ UNCHANGED <<homeVars, displayVars, mcAnswers, mixedAnswers, caseStudyResponses,
                 fetches>>
  /\ UNCHANGED routeVars

\* onChange of the text area of a task of the case-study form
SetCaseStudyResponse(texts) ==
  /\ SubmissionView /\ FormKind = "case-study"
  /\ \E i \in 1..Len(PageTasks) : \E chars \in texts :
       caseStudyResponses' = SetMember(caseStudyResponses, ToKey(Num(i)), Str(chars))
  /\ lastEvent' = "setCaseStudyResponse" /\ alerted' = ""
  /\ UNCHANGED <<homeVars, displayVars, mcAnswers, essayText, mixedAnswers, fetches>>
  /\ UNCHANGED routeVars

\* Unanswered with the test of the answers left out
UnansweredNone(questions, answers) == {}

\* questions.filter(q => !answers[q.number]), as positions in questions
Unanswered(questions, answers) ==
  {i \in 1..Len(questions) :
     Falsy(Prop(answers, ToKey(Prop(questions[i], "number"))))}

\* tasks.filter((_, index) => !caseStudyResponses[index + 1]), as positions
UnansweredTasks(tasks, responses) ==
  {i \in 1..Len(tasks) : Falsy(Prop(responses, ToKey(Num(i))))}

\* the alert with which handleSubmit returns early, "" when it goes on
SubmitRefusal ==
  CASE FormKind = "multiple-choice" ->
         IF Unanswered(PageQuestions, mcAnswers) # {}
         THEN "Please answer all questions." ELSE ""
    [] FormKind = "essay" ->
         IF TrimChars(essayText) = <<>>
         THEN "Please write your essay before submitting." ELSE ""
    [] FormKind = "test" ->
         IF Unanswered(PageQuestions, mixedAnswers) # {}
         THEN "Please answer all questions." ELSE ""
    [] FormKind = "case-study" ->
         IF UnansweredTasks(PageTasks, caseStudyResponses) # {}
         THEN "Please respond to all tasks." ELSE ""
    [] OTHER ->
         IF TrimChars(essayText) = <<>>
         THEN "Please provide your submission before submitting." ELSE ""

\* the submission handleSubmit hands to onSubmit
SubmissionBuilt ==
  CASE FormKind = "multiple-choice" ->
         ObjOf(<<"type", "answers">>, <<StrOf("multiple-choice"), mcAnswers>>)
    [] FormKind = "essay" -> ObjOf(<<"type", "text">>, <<StrOf("essay"), Str(essayText)>>)
    [] FormKind = "test" -> ObjOf(<<"type", "answers">>, <<StrOf("test"), mixedAnswers>>)
    [] FormKind = "case-study" ->
         ObjOf(<<"type", "responses">>, <<StrOf("case-study"), caseStudyResponses>>)
    [] OTHER -> ObjOf(<<"type", "text">>, <<safeAssignmentType, Str(essayText)>>)

\* HandleSubmit with the submission form left open during the evaluation
HandleSubmitKeepsForm ==
  /\ SubmissionView
  /\ FormKind \in {"essay", "generic"} => TrimChars(essayText) # <<>>
  /\ IF SubmitRefusal # ""
     THEN /\ alerted' = SubmitRefusal
          /\ lastEvent' = "submitRefused"
          /\ UNCHANGED <<displayVars, formVars, fetches>>
     ELSE /\ isEvaluating' = TRUE
          /\ fetches' = Append(fetches,
                               Fetch("evaluate",
                                     ObjOf(<<"assignment", "submission", "assignmentType">>,
                                           <<pageAssignment, SubmissionBuilt,
                                             safeAssignmentType>>),
                                     <<>>, safeAssignmentType))
          /\ alerted' = ""
          /\ lastEvent' = "submit"
          /\ UNCHANGED <<showSubmission, evaluationResults, formVars>>
  /\ UNCHANGED homeVars
  /\ UNCHANGED routeVars

\* handleSubmit and, through onSubmit, handleSubmission up to the await of
\* fetch; the button of the essay and generic forms is disabled for a blank text
HandleSubmit ==
  /\ SubmissionView
  /\ FormKind \in {"essay", "generic"} => TrimChars(essayText) # <<>>
  /\ IF SubmitRefusal # ""
     THEN /\ alerted' = SubmitRefusal
          /\ lastEvent' = "submitRefused"
          /\ UNCHANGED <<displayVars, formVars, fetches>>
     ELSE /\ isEvaluating' = TRUE
          /\ showSubmission' = FALSE
          /\ fetches' = Append(fetches,
                               Fetch("evaluate",
                                     ObjOf(<<"assignment", "submission", "assignmentType">>,
                                           <<pageAssignment, SubmissionBuilt,
                                             safeAssignmentType>>),
                                     <<>>, safeAssignmentType))
          /\ FormReset
          /\ alerted' = ""
          /\ lastEvent' = "submit"
          /\ UNCHANGED evaluationResults
  /\ UNCHANGED homeVars
  /\ UNCHANGED routeVars

\* EvaluationSettled with the flag cleared on the success path only
EvaluationSettledNoClear(i, o) ==
  LET f == fetches[i]
      thrown == Thrown(o, "results", "Failed to evaluate submission.",
                       "Invalid response from evaluation API.")
  IN /\ f.route = "evaluate"
     /\ fetches' = Remove(fetches, i)
     /\ alerted' = IF thrown = JNull THEN "" ELSE thrown.cs[1]
     /\ lastEvent' = IF thrown = JNull THEN "evaluated" ELSE "evaluateFailed"
     /\ IF f.orphan \/ thrown # JNull THEN UNCHANGED <<isEvaluating, evaluationResults>>
        ELSE /\ isEvaluating' = FALSE
             /\ evaluationResults' = Prop(o.data, "results")
     /\ UNCHANGED <<homeVars, showSubmission, formVars>>
     /\ UNCHANGED routeVars

\* handleSubmission, from the settling of the fetch i with outcome o on; the
\* state of a component that has been unmounted is not set
EvaluationSettled(i, o) ==
  LET f == fetches[i]
      thrown == Thrown(o, "results", "Failed to evaluate submission.",
                       "Invalid response from evaluation API.")
  IN /\ f.route = "evaluate"
     /\ fetches' = Remove(fetches, i)
     /\ alerted' = IF thrown = JNull THEN "" ELSE thrown.cs[1]
     /\ lastEvent' = IF thrown = JNull THEN "evaluated" ELSE "evaluateFailed"
     /\ IF f.orphan THEN UNCHANGED <<isEvaluating, evaluationResults>>
        ELSE /\ isEvaluating' = FALSE
             /\ evaluationResults' =
                  IF thrown = JNull THEN Prop(o.data, "results") ELSE evaluationResults
     /\ UNCHANGED <<homeVars, showSubmission, formVars>>
     /\ UNCHANGED routeVars

\* what the fetch f of an evaluation may settle with: no response, a body
\* that is not JSON, an error response of the route, a body without the
\* members of a success, and the success response of the route for one of
\* evaluations
EvaluateOutcomes(f, evaluations) ==
  {NetworkError, NotJson(FALSE), Outcome(FALSE, ErrorResponse(500, EvalFailure).body),
   Outcome(FALSE, Obj(<<>>, <<>>)), Outcome(TRUE, Obj(<<>>, <<>>))}
  \cup {Outcome(TRUE, Respond(200, <<"success", "results">>,
                              <<JTrue, EvaluationResults(e, Prop(f.body, "assignment"))>>).body) :
          e \in evaluations}

\* the fetch of an evaluation settles
EvaluationSettles(evaluations) ==
  /\ fetches # <<>>
  /\ \E i \in 1..Len(fetches) :
       \E o \in EvaluateOutcomes(fetches[i], evaluations) : EvaluationSettled(i, o)

----------------------------------------------------------------------------
(* What the user types and what the routes answer the page *)

\* the characters of the search box
SearchTexts == Seqs({" ", "topic"}, MaxQueryLen)

\* the characters of a text area
AnswerTexts == {<<>>, <<" ">>, <<"essay">>}

\* a question of the page, with its options when it has some
PageQuestion(n, options) ==
  ObjOf(<<"number", "type", "question", "points", "options">>,
        <<Num(n), StrOf("short-answer"), StrOf("q"), Num(5), options>>)
Options == ObjOf(<<"A", "B">>, <<StrOf("a"), StrOf("b")>>)

\* an assignment of kind k as the generate route hands it to the page
PageAssignmentOf(k) ==
  LET common == ObjOf(<<"title", "objectives", "rubric">>,
                      <<StrOf("t"), Arr(<<StrOf("o")>>), Rubric(Num(50))>>) IN
  CASE k = "multiple-choice" ->
         SetMember(SetMember(common, "questions",
                             Arr(<<PageQuestion(1, Options), PageQuestion(2, Options)>>)),
                   "answerKey", AnswerMap(StrOf("A"), StrOf("B")))
    [] k = "test" ->
         SetMember(SetMember(common, "questions",
                             Arr(<<PageQuestion(1, Options), PageQuestion(2, Undef)>>)),
                   "answerKey", AnswerMap(StrOf("A"), StrOf("B")))
    [] k = "essay" ->
         SetMember(SetMember(common, "prompt", StrOf("p")),
                   "requirements", Arr(<<StrOf("r")>>))
    [] k = "case-study" ->
         SetMember(SetMember(common, "scenario", StrOf("s")),
                   "tasks", Arr(<<StrOf("t1"), StrOf("t2")>>))
    [] OTHER -> SetMember(SetMember(common, "description", StrOf("d")),
                          "requirements", Arr(<<StrOf("r")>>))

\* the assignments a success response may carry: one of each shape, an
\* object without the members of an assignment, and null
PageAssignments ==
  {PageAssignmentOf(k) : k \in {"multiple-choice", "test", "essay", "case-study", "project"}}
  \cup {Obj(<<>>, <<>>), JNull}

\* the evaluations the model may return to the evaluate route
PageEvaluations == {Sample, EvaluationData(<<>>)}

----------------------------------------------------------------------------
(* Specifications *)

\* the page as it is first rendered
InitPage ==
  /\ searchQuery = <<>>
  /\ pageAssignmentType = StrOf("case-study")
  /\ isGenerating = FALSE
  /\ pageAssignment = JNull
  /\ generatedQuery = Str(<<>>)
  /\ generatedAssignmentType = StrOf("case-study")
  /\ error = JNull
  /\ showSubmission = FALSE
  /\ isEvaluating = FALSE
  /\ evaluationResults = JNull
  /\ mcAnswers = Obj(<<>>, <<>>)
  /\ essayText = <<>>
  /\ mixedAnswers = Obj(<<>>, <<>>)
  /\ caseStudyResponses = Obj(<<>>, <<>>)
  /\ fetches = <<>>
  /\ lastEvent = "none"
  /\ alerted = ""

Init ==
  /\ InitPage
  /\ apiKey \in BOOLEAN
  /\ endpoint = "none"
  /\ pc = "idle"
  /\ req = Body(Undef)
  /\ calls = 0
  /\ prompt = "none"
  /\ promptText = Undef
  /\ completion = "none"
  /\ modelText = <<>>
  /\ data = NoData
  /\ response = NoResponse

\* every request, a sample of model responses
Next ==
  \/ GeneratePOST(GenerateRequests)
  \/ GenerateCompletion(ModelTexts)
  \/ GenerateCompletionFails
  \/ EvaluatePOST(EvaluateRequests)
  \/ EvaluateCompletion(ModelTexts)
  \/ EvaluateCompletionFails

Spec == Init /\ [][Next]_vars

\* one valid request per route, every model response of RawTexts
NextTexts ==
  \/ GeneratePOST({SampleGenerateRequest})
  \/ GenerateCompletion(RawTexts)
  \/ GenerateCompletionFails
  \/ EvaluatePOST({SampleEvaluateRequest})
  \/ EvaluateCompletion(RawTexts)
  \/ EvaluateCompletionFails

SpecTexts == Init /\ [][NextTexts]_vars

\* the page: what the user does and what the fetches settle with
NextPage ==
  \/ \E chars \in SearchTexts : SetSearchQuery(chars)
  \/ \E kind \in validTypes : SetAssignmentType(kind)
  \/ HandleGenerateAssignment
  \/ GenerationSettles(PageAssignments)
  \/ HandleGenerateNew
  \/ ShowSubmissionForm
  \/ HandleCancelSubmission
  \/ SetMcAnswer
  \/ SetMixedAnswer(AnswerTexts)
  \/ SetEssayText(AnswerTexts)
  \/ SetCaseStudyResponse(AnswerTexts)
  \/ HandleSubmit
  \/ EvaluationSettles(PageEvaluations)
  \/ HandleBackFromResults
  \/ HandleCopyAssignment
  \/ CopyResults

SpecPage == Init /\ [][NextPage]_vars

\* a fetch settles, with one of its failures or with a response of the route
FetchSettles ==
  \/ GenerationSettles({}) \/ EvaluationSettles({})
  \/ GenerationSettles(PageAssignments) \/ EvaluationSettles(PageEvaluations)

\* the page where every fetch settles: the promise of a fetch and of the
\* reading of its body resolves or rejects
SpecPageLive == SpecPage /\ WF_vars(FetchSettles)

----------------------------------------------------------------------------
(* Properties *)

Status == response.status
Responded == pc = "done"
NoCall == calls = 0 /\ completion = "none" /\ modelText = <<>>

SixKinds ==
  {StrOf("case-study"), StrOf("multiple-choice"), StrOf("essay"), StrOf("test"),
   StrOf("presentation"), StrOf("project")}

Field(f) == Prop(req.body, f)
Missing(f) == Field(f).t = "undef"

\* the body of the request is a JSON value the route reads its fields from
HasFields == pc # "idle" /\ req.parses /\ req.body.t = "obj"

Blank(chars) == \A i \in 1..Len(chars) : chars[i] \in {" ", "\n"}

QueryRejectable ==
  Missing("query") \/ Field("query").t # "str" \/ Blank(Field("query").cs)
KindRejectable == ~Missing("assignmentType") /\ Field("assignmentType") \notin SixKinds

\* C1: a generate request whose query is missing, not a string or blank, or
\* whose assignmentType is given and is not one of the six kinds, is answered
\* 400 and no completion call is issued for it.
C1_GenerateRejectsInvalid ==
  (endpoint = "generate" /\ HasFields /\ (QueryRejectable \/ KindRejectable))
    => (Responded /\ Status = 400 /\ NoCall)

C1_Witness ==
  /\ endpoint = "generate" /\ Responded /\ apiKey
  /\ Field("query") = Str(<<" ", " ">>)
  /\ Field("assignmentType") = StrOf("essay")
  /\ Status = 400 /\ calls = 0

GenerateValid == HasFields /\ ~QueryRejectable /\ ~KindRejectable
EvaluateValid ==
  HasFields /\ \A f \in {"assignment", "submission", "assignmentType"} : ~Falsy(Field(f))

\* C2: without a credential no completion call is ever issued by either route,
\* and a request that has passed validation is answered 500 with the message
\* that the key is not configured (a request that fails validation has been
\* answered 400 before the credential is looked at).
C2_NoCredentialNoCall ==
  ~apiKey =>
    /\ NoCall
    /\ pc # "calling"
    /\ (Responded /\ endpoint = "generate" /\ GenerateValid)
         => response = ErrorResponse(500, KeyFailure)
    /\ (Responded /\ endpoint = "evaluate" /\ EvaluateValid)
         => response = ErrorResponse(500, KeyFailure)
    /\ Responded => Status \in {400, 500}

C2_Witness ==
  /\ ~apiKey /\ Responded /\ endpoint = "evaluate" /\ EvaluateValid
  /\ Status = 500 /\ calls = 0

\* C3: an evaluate request that lacks assignment, submission or assignmentType
\* is answered 400 and no completion call is issued for it.
C3_EvaluateRejectsMissing ==
  (endpoint = "evaluate" /\ HasFields
     /\ \E f \in {"assignment", "submission", "assignmentType"} : Missing(f))
    => (Responded /\ Status = 400 /\ NoCall)

C3_Witness ==
  /\ endpoint = "evaluate" /\ Responded /\ apiKey
  /\ ~Missing("assignment") /\ Missing("submission") /\ ~Missing("assignmentType")
  /\ Status = 400 /\ calls = 0

\* a request with its three fields and an assignment that carries a rubric,
\* under a configured credential
EvaluateReady ==
  /\ endpoint = "evaluate" /\ EvaluateValid /\ apiKey
  /\ Prop(Field("assignment"), "rubric").t = "obj"

\* C4: an evaluate request whose assignmentType is present and is not one of
\* the six kinds is answered 400; no evaluation prompt is built and no
\* completion call is issued for it.
C4_UnknownKindRejected ==
  (EvaluateReady /\ Field("assignmentType") \notin SixKinds)
    => (prompt = "none" /\ NoCall /\ (Responded => Status = 400))

\* C5: an evaluate request whose submission.type differs from its
\* assignmentType is answered 400 and never reaches the completion call.
C5_MismatchRejected ==
  (EvaluateReady /\ Prop(Field("submission"), "type") # Field("assignmentType"))
    => (NoCall /\ (Responded => Status = 400))

\* the lexemes of prose that is words, whitespace and fence marks
PlainLexemes == {Word, Space, Newline, JsonWord, Fence}

\* txt is core with lexemes of the set around it (or with nothing around it)
Surrounded(txt, core, lexemes) ==
  \E i \in 0..(Len(txt) - Len(core)) :
    /\ SubSeq(txt, i + 1, i + Len(core)) = core
    /\ \A k \in 1..Len(txt) : (k <= i \/ k > i + Len(core)) => txt[k] \in lexemes

\* C6: for a JSON object J, the value recovered from the serialization of J,
\* bare, in a ```json fence, or with prose before and after it, is J.
C6_RoundTrip ==
  completion = "resolved" =>
    \A J \in RawObjects :
      (\/ modelText = Stringify(J)
       \/ modelText = FenceJson(Stringify(J))
       \/ Surrounded(modelText, Stringify(J), PlainLexemes))
        => data = [ok |-> TRUE, v |-> J]

C6_Witness ==
  /\ completion = "resolved" /\ endpoint = "generate"
  /\ modelText = <<Word>> \o Stringify(Sample) \o <<Word>>
  /\ data = [ok |-> TRUE, v |-> Sample]
  /\ Status = 200 /\ Prop(response.body, "assignment") = Sample

NoBraceSpan(txt) ==
  ~\E i, j \in 1..Len(txt) : i < j /\ txt[i] = LBrace /\ txt[j] = RBrace

\* C7: for a model response with no span from a "{" to a later "}" the
\* recovery fails and the route answers 500, never with a success.
C7_NoBraceSpanFails ==
  (completion = "resolved" /\ NoBraceSpan(modelText)) => (~data.ok /\ Status = 500)

EvaluateSucceeded == endpoint = "evaluate" /\ Responded /\ Status = 200
Results == Prop(response.body, "results")
TotalPoints == Prop(Prop(Field("assignment"), "rubric"), "totalPoints")

ScoreOf(item) == IF Prop(item, "score").t = "num" THEN Prop(item, "score").n ELSE 0

RECURSIVE SumScores(_)
SumScores(items) ==
  IF items = <<>> THEN 0 ELSE ScoreOf(Head(items)) + SumScores(Tail(items))

\* p is the integer nearest to 100 * total / max, a half rounding up
Nearest(p, total, max) ==
  2 * max * p - max <= 200 * total /\ 200 * total < 2 * max * p + max

\* C8: in a successful evaluate response totalScore is the sum of the scores
\* of rubricScores, maxScore is assignment.rubric.totalPoints, and percentage
\* is round(100 * totalScore / maxScore) wherever that quotient is defined
\* (totalPoints a positive number); scores 20 and 15 with totalPoints 50 give
\* 35 and 70.
C8_Arithmetic ==
  EvaluateSucceeded =>
    LET total == Prop(Results, "totalScore")
        max == Prop(Results, "maxScore")
        pct == Prop(Results, "percentage")
        items == Prop(Results, "rubricScores").items
    IN /\ total = Num(SumScores(items))
       /\ max = TotalPoints
       /\ (max.t = "num" /\ max.n > 0)
            => (pct.t = "num" /\ Nearest(pct.n, total.n, max.n))
       /\ (items = <<Item(Num(20)), Item(Num(15))>> /\ max = Num(50))
            => (total = Num(35) /\ pct = Num(70))

C8_Witness ==
  /\ EvaluateSucceeded
  /\ Prop(Results, "rubricScores") = Arr(<<Item(Num(20)), Item(Num(15))>>)
  /\ TotalPoints = Num(50)
  /\ Prop(Results, "totalScore") = Num(35)
  /\ Prop(Results, "percentage") = Num(70)

HasScore(item) == Prop(item, "score").t # "undef"

RECURSIVE SumPresent(_)
SumPresent(items) ==
  IF items = <<>> THEN 0
  ELSE (IF HasScore(Head(items)) THEN Prop(Head(items), "score").n ELSE 0)
       + SumPresent(Tail(items))

\* C9: when the recovered evaluation has a rubricAssessment list of items of
\* which some have no score, the request still succeeds and totalScore is the
\* sum of the scores of the items that have one.
C9_MissingScoreIsZero ==
  LET list == Prop(data.v, "rubricAssessment") IN
  (/\ endpoint = "evaluate" /\ completion = "resolved" /\ data.ok
   /\ list.t = "arr"
   /\ \A i \in 1..Len(list.items) : list.items[i].t = "obj"
   /\ \E i \in 1..Len(list.items) : ~HasScore(list.items[i]))
    => /\ Status = 200
       /\ Prop(Results, "totalScore") = Num(SumPresent(list.items))

C9_Witness ==
  /\ endpoint = "evaluate" /\ completion = "resolved"
  /\ data = [ok |-> TRUE, v |-> EvaluationData(<<Undef, Num(20)>>)]
  /\ Status = 200
  /\ Prop(Results, "totalScore") = Num(20)

\* C10: the percentage of a successful evaluate response is an integer from 0
\* to 100, whatever scores the model response carries (here for a rubric whose
\* totalPoints is a positive number).
C10_PercentageInRange ==
  (EvaluateSucceeded /\ TotalPoints.t = "num" /\ TotalPoints.n > 0)
    => LET pct == Prop(Results, "percentage") IN
       pct.t = "num" /\ 0 <= pct.n /\ pct.n <= 100

Questions == Prop(Field("assignment"), "questions").items
Answered(q) == Prop(Prop(Field("submission"), "answers"), ToKey(Prop(q, "number")))
KeyEntry(q) == Prop(Prop(Field("assignment"), "answerKey"), ToKey(Prop(q, "number")))

\* the points of the questions of qs whose answer is the entry of the answer key
RECURSIVE PointsOfCorrect(_)
PointsOfCorrect(qs) ==
  IF qs = <<>> THEN 0
  ELSE (IF Answered(Head(qs)) = KeyEntry(Head(qs)) THEN Prop(Head(qs), "points").n ELSE 0)
       + PointsOfCorrect(Tail(qs))

\* a request of kind k whose submission is of kind k, for an assignment with a
\* list of questions, an answer key and a rubric, under a configured credential
QuizRequest(k) ==
  /\ EvaluateReady
  /\ Field("assignmentType") = StrOf(k) /\ Prop(Field("submission"), "type") = StrOf(k)
  /\ Prop(Field("assignment"), "questions").t = "arr"
  /\ \A i \in 1..Len(Questions) : Prop(Questions[i], "number").t = "num"
  /\ Prop(Field("assignment"), "answerKey").t = "obj"
  /\ Prop(Field("submission"), "answers").t = "obj"

\* C11: for a multiple-choice evaluation the prompt handed to the completion
\* call carries, from the moment the call is issued, the points earned: the sum
\* of q.points over the questions q whose submitted answer equals (===) the
\* answer key entry for q.number. Two questions of 5 points, key {1:A, 2:B} and
\* answers {1:A, 2:C} give 5.
C11_PointsInPrompt ==
  QuizRequest("multiple-choice") =>
    /\ prompt = "multiple-choice" /\ calls = 1
    /\ Prop(promptText, "Points Earned") = Num(PointsOfCorrect(Questions))
    /\ (/\ Field("assignment") = AssignmentOf("multiple-choice", Num(50))
        /\ Prop(Field("submission"), "answers") = AnswerMap(StrOf("A"), StrOf("C")))
         => Prop(promptText, "Points Earned") = Num(5)

C11_Witness ==
  /\ QuizRequest("multiple-choice") /\ pc = "calling" /\ completion = "pending"
  /\ Field("assignment") = QuizOf("multiple-choice", Num(10), StrOf("B"))
  /\ Prop(Field("submission"), "answers") = AnswerMap(StrOf("C"), StrOf("B"))
  /\ Prop(promptText, "Points Earned") = Num(10)
  /\ Prop(promptText, "Correct Answers") = Num(1)

\* C12: for a test evaluation, as for a multiple-choice one, the prompt handed
\* to the completion call carries the computed objective score: the points of
\* the questions whose submitted answer equals the answer key entry.
C12_TestScoreInPrompt ==
  QuizRequest("test") =>
    /\ prompt = "test" /\ calls = 1
    /\ Prop(promptText, "Points Earned") = Num(PointsOfCorrect(Questions))

C14_GenerateSuccess ==
  (endpoint = "generate" /\ Responded /\ Status = 200) =>
    /\ data.ok /\ completion = "resolved"
    /\ response.body.keys = <<"success", "assignment", "query", "assignmentType">>
    /\ Prop(response.body, "success") = JTrue
    /\ Prop(response.body, "assignment") = data.v
    /\ Prop(response.body, "query") = Field("query")
    /\ Prop(response.body, "assignmentType") =
         (IF Missing("assignmentType") THEN StrOf("case-study")
          ELSE Field("assignmentType"))

C14_Witness ==
  /\ endpoint = "generate" /\ Responded /\ Status = 200
  /\ Missing("assignmentType") /\ Field("query") = Str(<<" ", "topic">>)
  /\ Prop(response.body, "assignmentType") = StrOf("case-study")
  /\ Prop(response.body, "query") = Str(<<" ", "topic">>)
  /\ Prop(response.body, "assignment") = Sample

\* the state of the interaction layer, read off the view the page renders
Phase ==
  IF FormView THEN (IF isGenerating THEN "Generating" ELSE "Idle")
  ELSE IF InvalidView THEN "Displaying"
  ELSE IF ResultsView THEN "ShowingResults"
  ELSE IF SubmissionView THEN "Submitting"
  ELSE IF EvaluatingView THEN "Evaluating"
  ELSE "Displaying"

\* the arrows of the stated machine; the failure return out of Evaluating is
\* taken to be any of the two it may mean
StatedArrows ==
  {<<"Idle", "Generating">>, <<"Generating", "Displaying">>,
   <<"Displaying", "Submitting">>, <<"Submitting", "Displaying">>,
   <<"Submitting", "Evaluating">>, <<"Evaluating", "ShowingResults">>,
   <<"ShowingResults", "Displaying">>, <<"ShowingResults", "Idle">>,
   <<"Generating", "Idle">>, <<"Evaluating", "Submitting">>,
   <<"Evaluating", "Displaying">>}

\* C15 as stated: the interaction layer changes state only along the arrows
\* of the stated machine, in which Generate New leads from ShowingResults to
\* Idle (here for a page that is not showing an assignment it found invalid).
C15_OnlyStatedArrows ==
  [][(Phase' # Phase /\ ~InvalidView) => <<Phase, Phase'>> \in StatedArrows]_vars

\* the arrows of the page, each with the handler that takes it
PageArrows ==
  {<<"Idle", "generate", "Generating">>,
   <<"Generating", "generated", "Displaying">>,
   <<"Generating", "generateFailed", "Idle">>,
   <<"Displaying", "showSubmission", "Submitting">>,
   <<"Submitting", "cancelSubmission", "Displaying">>,
   <<"Submitting", "submit", "Evaluating">>,
   <<"Evaluating", "evaluated", "ShowingResults">>,
   <<"Evaluating", "evaluateFailed", "Displaying">>,
   <<"ShowingResults", "backFromResults", "Displaying">>,
   <<"Displaying", "generateNew", "Idle">>}

\* C15 as amended: the interaction layer changes state only along Idle to
\* Generating; Generating to Displaying on success and to Idle on failure;
\* Displaying to Submitting and back; Submitting to Evaluating; Evaluating to
\* ShowingResults on success and to Displaying on failure; ShowingResults to
\* Displaying on Back; and Displaying to Idle on Generate New.
C15_OnlyPageArrows ==
  [][Phase' # Phase => <<Phase, lastEvent', Phase'>> \in PageArrows]_vars

C15_Witness ==
  /\ Phase = "Idle" /\ lastEvent = "generateNew"
  /\ searchQuery = <<"topic">> /\ generatedQuery = Str(<<>>) /\ error = JNull

\* C16: after a generation attempt that failed (the query was blank, the
\* response was not OK or lacked success or the assignment, or the fetch or
\* the reading of its body failed) the page shows the input form with a
\* non-empty error message, no assignment, and the loading flag cleared.
C16_GenerationFailureToIdle ==
  lastEvent \in {"generateRefused", "generateFailed"} =>
    /\ Phase = "Idle"
    /\ error.t = "str" /\ error.cs # <<>> /\ error.cs[1] # ""
    /\ pageAssignment = JNull
    /\ ~isGenerating

C16_Witness ==
  /\ lastEvent = "generateFailed" /\ Phase = "Idle" /\ ~isGenerating
  /\ error = StrOf("Invalid response from server. Please try again.")
  /\ pageAssignment = JNull /\ fetches = <<>>

\* C17: after an evaluation attempt that failed the page is back in the
\* Submitting state (the submission form is shown) with an error shown.
C17_EvaluationFailureToSubmitting ==
  lastEvent = "evaluateFailed" => (Phase = "Submitting" /\ alerted # "")

\* the submission of the request body b is complete for the kind of b
Complete(b) ==
  LET a == Prop(b, "assignment")
      sub == Prop(b, "submission")
      kind == Prop(b, "assignmentType")
      questions == IF IsArr(Prop(a, "questions")) THEN Prop(a, "questions").items ELSE <<>>
      tasks == IF IsArr(Prop(a, "tasks")) THEN Prop(a, "tasks").items ELSE <<>>
      NonEmpty(v) == v.t = "str" /\ v.cs # <<>>
  IN /\ kind \in {StrOf("multiple-choice"), StrOf("test")} =>
          \A i \in 1..Len(questions) :
            NonEmpty(Prop(Prop(sub, "answers"), ToKey(Prop(questions[i], "number"))))
     /\ kind = StrOf("case-study") =>
          \A i \in 1..Len(tasks) : NonEmpty(Prop(Prop(sub, "responses"), ToKey(Num(i))))
     /\ kind \in {StrOf("essay"), StrOf("presentation"), StrOf("project")} =>
          (Prop(sub, "text").t = "str" /\ ~Blank(Prop(sub, "text").cs))

\* C18: every evaluate request of the page carries a submission that is
\* complete for its kind: an answer to every question (multiple-choice, test),
\* a response to every task (case-study), a text that is not blank (essay,
\* presentation, project); a submit that is refused starts no request.
C18_OnlyCompleteSubmissions ==
  /\ \A i \in 1..Len(fetches) :
       fetches[i].route = "evaluate" => Complete(fetches[i].body)
  /\ lastEvent = "submitRefused" => (fetches = <<>> /\ ~isEvaluating /\ alerted # "")

C18_Witness ==
  /\ Phase = "Evaluating" /\ Len(fetches) = 1 /\ fetches[1].route = "evaluate"
  /\ Prop(fetches[1].body, "assignmentType") = StrOf("test")
  /\ Prop(fetches[1].body, "assignment") = PageAssignmentOf("test")
  /\ Prop(Prop(fetches[1].body, "submission"), "answers")
       = AnswerMap(StrOf("A"), StrOf("essay"))

\* C20: the recovery of the JSON value is the same in both routes: what the
\* evaluate route recovered from a response is what the recovery of the
\* generate route yields for that text, and the other way round (the same
\* value, or a failure in both).
C20_SameRecovery ==
  completion = "resolved" =>
    /\ endpoint = "evaluate" => data = GenExtract(modelText)
    /\ endpoint = "generate" => data = EvalExtract(modelText)

C20_Witness ==
  /\ completion = "resolved" /\ endpoint = "evaluate"
  /\ modelText = <<Space>> \o FenceJson(Stringify(Sample)) \o <<Newline>>
  /\ data = [ok |-> TRUE, v |-> Sample]
  /\ GenExtract(modelText) = data

\* C21: going back from the results view discards the evaluation result and
\* shows the assignment view again: the submission form is closed, and the
\* assignment, its query and its kind are what they were.
C21_BackDiscardsResults ==
  [][(ResultsView /\ lastEvent' = "backFromResults") =>
       /\ evaluationResults' = JNull
       /\ ~showSubmission'
       /\ AssignmentView'
       /\ pageAssignment' = pageAssignment
       /\ generatedQuery' = generatedQuery
       /\ generatedAssignmentType' = generatedAssignmentType]_vars

C21_Witness ==
  /\ lastEvent = "backFromResults" /\ AssignmentView
  /\ evaluationResults = JNull /\ ~showSubmission
  /\ pageAssignment = PageAssignmentOf("essay")
  /\ generatedQuery = Str(<<"topic">>) /\ generatedAssignmentType = StrOf("essay")

\* what is left of the response of the model once it is trimmed and its
\* fence is stripped, in the route that received it
Remainder ==
  IF endpoint = "generate" THEN GenJsonText(modelText) ELSE EvalJsonText(modelText)

\* C22: extraction proceeds in a fixed order and the first success wins: the
\* remainder of the trimmed, unfenced text is parsed directly and, when that
\* succeeds, its value is the one recovered, whatever its brace span holds;
\* only when it fails is the span from the first "{" to the last "}" parsed;
\* when neither parse yields a value the request fails (status 500).
C22_FirstSuccessWins ==
  completion = "resolved" =>
    LET direct == JsonParse(Remainder)
        span == BraceSpan(Remainder)
    IN /\ direct.ok => data = direct
       /\ (~direct.ok /\ span # <<>> /\ JsonParse(span).ok) => data = JsonParse(span)
       /\ (~direct.ok /\ (span = <<>> \/ ~JsonParse(span).ok)) =>
            (~data.ok /\ response.status = 500)

\* an array that holds an object parses directly and is not replaced by the
\* object its brace span holds
C22_Witness ==
  /\ completion = "resolved" /\ endpoint = "generate"
  /\ modelText = <<LBrack>> \o Stringify(Sample) \o <<RBrack>>
  /\ JsonParse(BraceSpan(Remainder)) = [ok |-> TRUE, v |-> Sample]
  /\ data = [ok |-> TRUE, v |-> Arr(<<Sample>>)]
  /\ response.status = 200
  /\ Prop(response.body, "assignment") = Arr(<<Sample>>)

\* C23: validation precedes the credential check in both routes: without a
\* credential, a generate request with a bad query or kind and an evaluate
\* request that lacks a field are still answered 400; and in generate the
\* query is checked before the kind (a request in which both are bad is
\* answered with the message about the query).
C23_ValidationBeforeCredential ==
  /\ (~apiKey /\ endpoint = "generate" /\ HasFields
        /\ (QueryRejectable \/ KindRejectable))
       => (Responded /\ Status = 400 /\ response # ErrorResponse(500, KeyFailure))
  /\ (~apiKey /\ endpoint = "evaluate" /\ HasFields
        /\ \E f \in {"assignment", "submission", "assignmentType"} : Missing(f))
       => (Responded /\ Status = 400 /\ response # ErrorResponse(500, KeyFailure))
  /\ (endpoint = "generate" /\ HasFields /\ QueryRejectable /\ KindRejectable)
       => response = ErrorResponse(400, "Please provide a search query to generate an assignment.")

C23_Witness ==
  /\ ~apiKey /\ endpoint = "generate" /\ Responded
  /\ Field("query") = Str(<<" ">>) /\ Field("assignmentType") = StrOf("bogus")
  /\ response = ErrorResponse(400, "Please provide a search query to generate an assignment.")
  /\ calls = 0

\* C24: where every fetch settles, a loading flag that is set is eventually
\* cleared: isGenerating leads to ~isGenerating and isEvaluating leads to
\* ~isEvaluating, whether the attempt succeeds or fails.
C24_LoadingFlagsCleared ==
  /\ isGenerating ~> ~isGenerating
  /\ isEvaluating ~> ~isEvaluating

C24_Witness ==
  /\ lastEvent = "evaluateFailed" /\ alerted = "Failed to fetch"
  /\ ~isEvaluating /\ ~isGenerating /\ fetches = <<>>
  /\ pageAssignment = PageAssignmentOf("case-study")

\* C25: the evaluate route does not guard the divisor of the percentage: a
\* request whose assignment has a rubric with totalPoints zero or absent is
\* not rejected; when its prompt builds the call is made, and when the
\* response of the model holds a rubricAssessment list the request is
\* answered 200 with success true and a percentage that is no finite number
\* (written as null).
C25_UnguardedDivisor ==
  (EvaluateReady /\ TotalPoints \in {Undef, Num(0)}) =>
    LET list == Prop(data.v, "rubricAssessment") IN
    /\ Status # 400
    /\ PromptBuilds(PromptBranch(Field("assignmentType"), Field("submission")),
                    Field("assignment"), Field("submission")) => calls = 1
    /\ (/\ completion = "resolved" /\ data.ok /\ list.t = "arr"
        /\ \A i \in 1..Len(list.items) : list.items[i].t = "obj")
         => /\ calls = 1
            /\ Status = 200
            /\ Prop(response.body, "success") = JTrue
            /\ Prop(Results, "maxScore") = TotalPoints
            /\ Prop(Results, "percentage") = JNull

C25_Witness ==
  /\ EvaluateReady /\ TotalPoints = Num(0) /\ Responded
  /\ data = [ok |-> TRUE, v |-> Sample]
  /\ calls = 1 /\ Status = 200
  /\ Prop(Results, "totalScore") = Num(35)
  /\ Prop(Results, "maxScore") = Num(0)
  /\ Prop(Results, "percentage") = JNull

\* C26: a response of the model that parses as JSON and has no rubricAssessment
\* makes evaluate answer 500 with no results; and the rubricScores of a
\* success response is always the list of the model, never the empty-list
\* default.
C26_MissingAssessmentFails ==
  /\ (/\ endpoint = "evaluate" /\ completion = "resolved" /\ data.ok
      /\ Prop(data.v, "rubricAssessment").t = "undef")
       => /\ Status = 500
          /\ Prop(response.body, "results").t = "undef"
          /\ Prop(response.body, "success").t = "undef"
          /\ Prop(response.body, "error").t = "str"
  /\ EvaluateSucceeded
       => /\ Prop(data.v, "rubricAssessment").t = "arr"
          /\ Prop(Results, "rubricScores") = Prop(data.v, "rubricAssessment")

C26_Witness ==
  /\ endpoint = "evaluate" /\ completion = "resolved" /\ calls = 1
  /\ modelText = Stringify(ObjOf(<<"title">>, <<StrOf("t")>>))
  /\ data = [ok |-> TRUE, v |-> ObjOf(<<"title">>, <<StrOf("t")>>)]
  /\ response = ErrorResponse(500, EvalFailure)

\* the points of the questions of qs for which the submission holds an answer
RECURSIVE PointsOfAnswered(_)
PointsOfAnswered(qs) ==
  IF qs = <<>> THEN 0
  ELSE (IF Answered(Head(qs)).t # "undef" THEN Prop(Head(qs), "points").n ELSE 0)
       + PointsOfAnswered(Tail(qs))

\* C27: in the multiple-choice pre-scoring a question for which the submission
\* holds no answer is never counted as correct and earns no points, whatever
\* the answer key holds for it (an entry or none); hence the points earned are
\* at most the points of the answered questions.
C27_UnansweredNeverCounts ==
  (QuizRequest("multiple-choice") /\ calls = 1) =>
    /\ \A i \in 1..Len(Questions) :
         Answered(Questions[i]).t = "undef" =>
           LET entry == Prop(promptText, "BREAKDOWN").items[i] IN
           /\ Prop(entry, "Result") = StrOf("Incorrect")
           /\ Prop(entry, "Points") = Num(0)
    /\ Prop(promptText, "Points Earned").n <= PointsOfAnswered(Questions)

\* the fetches in flight to the route
InFlight(route) == {i \in 1..Len(fetches) : fetches[i].route = route}

\* C28: at most one generation request is in flight at any time, and at most
\* one evaluation request: while one is in flight the page offers no way to
\* start a second (the flag of the request is set for as long as it is in
\* flight).
C28_OneRequestInFlight ==
  /\ Cardinality(InFlight("generate")) <= 1
  /\ Cardinality(InFlight("evaluate")) <= 1
  /\ InFlight("generate") # {} => isGenerating
  /\ InFlight("evaluate") # {} => isEvaluating

C28_Witness ==
  /\ lastEvent = "generate" /\ isGenerating /\ FormView
  /\ Len(fetches) = 1 /\ fetches[1].route = "generate"
  /\ Prop(fetches[1].body, "query") = Str(<<"topic", " ">>)
  /\ Prop(fetches[1].body, "assignmentType") = StrOf("test")

\* the modes of AssignmentDisplay that hold
Modes ==
  {m \in {"results", "submission", "evaluating"} :
     \/ m = "results" /\ ~Falsy(evaluationResults)
     \/ m = "submission" /\ showSubmission
     \/ m = "evaluating" /\ isEvaluating}

\* C29: at most one of the modes of the assignment view holds (results
\* present, submission form shown, evaluation in progress); and while an
\* assignment is displayed the page has no error message and no generation
\* in progress.
C29_ModesExclusive ==
  /\ Cardinality(Modes) <= 1
  /\ ~Falsy(pageAssignment) => (error = JNull /\ ~isGenerating)

C29_Witness ==
  /\ lastEvent = "evaluated" /\ Modes = {"results"}
  /\ Prop(evaluationResults, "totalScore") = Num(35)
  /\ pageAssignment = PageAssignmentOf("multiple-choice")
  /\ error = JNull /\ ~isGenerating

\* C30: every request to either route, whatever its body (an unparseable one
\* and null included) and whatever the completion call does, ends with one
\* response of status 200, 400 or 500, which carries a non-empty error
\* message when the status is not 200; a handler that has not ended has sent
\* no response.
C30_AlwaysAnswered ==
  /\ Responded =>
       /\ Status \in {200, 400, 500}
       /\ Status # 200 =>
            LET message == Prop(response.body, "error") IN
            message.t = "str" /\ message.cs # <<>> /\ message.cs[1] # ""
       /\ Status = 200 => Prop(response.body, "success") = JTrue
  /\ ~Responded => response = NoResponse

C30_Witness ==
  /\ Responded /\ endpoint = "evaluate" /\ req = NullBody
  /\ response = ErrorResponse(500, EvalFailure) /\ calls = 0

====
